---- MODULE Spec2Model ----
(***************************************************************************)
(* Model of the x-card-maker profile card pipeline:                        *)
(*   - TwitterProfileData.formatNumber and its three getters (types.ts)    *)
(*   - ProfileCardGenerator.drawDescription word wrap                      *)
(*   - ProfileCardGenerator.generateCard, step by step, with the canvas,   *)
(*     the image loader and the file system as its environment             *)
(* Strings that the code inspects character by character are sequences of  *)
(* one-character strings.                                                  *)
(***************************************************************************)
EXTENDS Integers, Sequences, FiniteSets, TLC

VARIABLES
    \* --- count formatting (types.ts) ---
    fProfile,       \* the three counters of a TwitterProfileData
    fResult,        \* last getter called and the string it returned
    fpc,            \* "new" | "done"
    \* --- description word wrap (drawDescription called on its own) ---
    wDescription,   \* the description string
    wOptions,       \* the options drawDescription reads
    wOps,           \* fillText calls issued by drawDescription
    wpc,            \* "new" | "done"
    \* --- generateCard ---
    assets,         \* CardAssets argument
    options,        \* CardGenerationOptions argument (partial function)
    outputPathArg,  \* outputPath argument, NoPath when not supplied
    now,            \* clock value read by new Date()
    pc,             \* position inside generateCard
    opts,           \* merged options
    canvas,         \* the canvas returned by createCanvas
    ops,            \* ordered log of canvas / loader / encoder / fs calls
    outputPath,     \* local outputPath after the default is applied
    buffer,         \* result of canvas.toBuffer()
    fsDirs,         \* directories that exist
    fsFiles,        \* files that exist: set of [path, content]
    fsDirs0,        \* directories that existed when the call started
    \* --- stored record, loadAssetsFromDirectory, generate-card command ---
    disk,           \* record file by username; image files of the user directories
    sProfile,       \* the TwitterProfileData handed to exportProfileData
    cliUsername,    \* <username> argument of generate-card
    loaded,         \* outcome of loadAssetsFromDirectory, or NotLoaded
    cli,            \* position inside the generate-card action
    \* --- the other commands and helpers ---
    download,       \* downloadProfileAssets: its call and its result
    master,         \* createMasterCSV: its call and the file written
    parse,          \* extractUsername: its input and its outcome
    cards,          \* generate-cards: users, position, counters, log
    cleanup,        \* cleanupUserDirectory: directory content and result
    batch,          \* batch: urls, position, log, exit code
    \* --- repeated generateCard calls ---
    run,            \* 1 for the first generateCard call, 2 for a second one
    prev,           \* what the first call left behind, once a second one runs
    result          \* value the promise resolves to, or NoResult

fmtVars  == <<fProfile, fResult, fpc>>
wrapVars == <<wDescription, wOptions, wOps, wpc>>
cardVars == <<assets, options, outputPathArg, now, pc, opts, canvas, ops,
              outputPath, buffer, fsDirs, fsFiles, fsDirs0, run, prev, result,
              disk, sProfile, cliUsername, loaded, cli,
              download, master, parse, cards, cleanup, batch>>
storeVars == <<disk, sProfile, cliUsername, loaded>>
toolVars == <<download, master, parse, cards, cleanup, batch>>
vars     == <<fmtVars, wrapVars, cardVars>>

-----------------------------------------------------------------------------
(* Bounds of the model *)

MaxDelta == 2         \* counts are taken within MaxDelta of each base count
MaxDescLen == 5       \* longest description, in characters, of the wrap model

-----------------------------------------------------------------------------
(* Decimal strings *)

Digits == <<"0", "1", "2", "3", "4", "5", "6", "7", "8", "9">>

DigitChar(d) == Digits[d + 1]

RECURSIVE NatToString(_)
\* Number.prototype.toString() of a non-negative integer
NatToString(n) ==
    IF n < 10 THEN <<DigitChar(n)>>
    ELSE NatToString(n \div 10) \o <<DigitChar(n % 10)>>

-----------------------------------------------------------------------------
(* Number.prototype.toFixed(1) of the double num / div, div = 10^3 or 10^6 *)

RECURSIVE Log2Floor(_)
\* exponent of the double nearest to a value whose integer part is n >= 1
Log2Floor(n) == IF n < 2 THEN 0 ELSE 1 + Log2Floor(n \div 2)

RECURSIVE MulPow2Mod(_, _, _)
\* (r * 2^e) mod m without leaving 32 bits
MulPow2Mod(r, e, m) == IF e = 0 THEN r % m ELSE MulPow2Mod((2 * r) % m, e - 1, m)

\* Sign of (double(num / div) - num / div): the quotient is rounded to a
\* 53-bit significand, so the sign is given by the remainder of
\* num * 2^(52 - exponent) modulo div.  A remainder of exactly div / 2 would
\* need round-half-even; it cannot occur for div = 10^3, 10^6 and num < 2^31
\* (the scaled numerator is a multiple of 2^21).
QuotientRoundedUp(num, div) ==
    LET e == 52 - Log2Floor(num \div div)
        r == MulPow2Mod(num % div, e, div)
    IN  r = 0 \/ 2 * r > div

\* toFixed(1): the integer n with n / 10 closest to the double; of two
\* equally close n the larger one.  num / div lies exactly half way between
\* two tenths only when num is an odd multiple of div / 20, and then the
\* double decides.
ToFixed1(num, div) ==
    LET unit == div \div 10
        q == num \div unit
        rem == num % unit
        n == IF 2 * rem < unit THEN q
             ELSE IF 2 * rem > unit THEN q + 1
             ELSE IF QuotientRoundedUp(num, div) THEN q + 1 ELSE q
    IN  NatToString(n \div 10) \o <<".">> \o <<DigitChar(n % 10)>>

formatNumberStrict(num) ==
    IF num > 1000000 THEN ToFixed1(num, 1000000) \o <<"M">>
    ELSE IF num > 1000 THEN ToFixed1(num, 1000) \o <<"K">>
    ELSE NatToString(num)

formatNumber(num) ==
    IF num >= 1000000 THEN ToFixed1(num, 1000000) \o <<"M">>
    ELSE IF num >= 1000 THEN ToFixed1(num, 1000) \o <<"K">>
    ELSE NatToString(num)

getFormattedFollowersCount(p) == formatNumber(p.followersCount)

getFormattedFollowingCount(p) == formatNumber(p.followingCount)

getFormattedTweetCount(p) == formatNumber(p.tweetCount)

-----------------------------------------------------------------------------
(* Specification of the count getters *)

CountBases ==
    {0, 9, 10, 99, 100, 950, 999, 1000, 1050, 1150, 1200, 1250, 1350, 9950,
     99950, 999900, 999950, 1000000, 1050000, 1150000, 1250000, 2500000,
     99950000, 999950000}

Counts == {b + d : b \in CountBases, d \in (0 - MaxDelta)..MaxDelta} \cap Nat

CountFields == {"followersCount", "followingCount", "tweetCount"}

NoFormatted == [getter |-> "none", text |-> <<>>]

NewProfile ==
    /\ \E c \in Counts, f \in CountFields :
          fProfile = [g \in CountFields |-> IF g = f THEN c ELSE 0]
    /\ fResult = NoFormatted
    /\ fpc = "new"

GetFormattedFollowersCount ==
    /\ fpc = "new"
    /\ fResult' = [getter |-> "followersCount",
                   text |-> getFormattedFollowersCount(fProfile)]
    /\ fpc' = "done"
    /\ UNCHANGED <<fProfile, wrapVars, cardVars>>

GetFormattedFollowingCount ==
    /\ fpc = "new"
    /\ fResult' = [getter |-> "followingCount",
                   text |-> getFormattedFollowingCount(fProfile)]
    /\ fpc' = "done"
    /\ UNCHANGED <<fProfile, wrapVars, cardVars>>

GetFormattedTweetCount ==
    /\ fpc = "new"
    /\ fResult' = [getter |-> "tweetCount",
                   text |-> getFormattedTweetCount(fProfile)]
    /\ fpc' = "done"
    /\ UNCHANGED <<fProfile, wrapVars, cardVars>>

-----------------------------------------------------------------------------
(* Text measurement and the description word wrap (drawDescription) *)

Alphabet == {"i", "W", " "}

\* ctx.measureText(text).width in the active font: the sum of the advance
\* widths of the characters (narrow glyph and space 1 unit, wide glyph 3)
CharWidth(c) == IF c = "W" THEN 3 ELSE 1

RECURSIVE measureText(_)
measureText(text) ==
    IF text = <<>> THEN 0 ELSE CharWidth(Head(text)) + measureText(Tail(text))

RECURSIVE SplitFrom(_, _)
\* String.prototype.split(' ') continued with the word `word` in progress
SplitFrom(str, word) ==
    IF str = <<>> THEN <<word>>
    ELSE IF Head(str) = " " THEN <<word>> \o SplitFrom(Tail(str), <<>>)
    ELSE SplitFrom(Tail(str), Append(word, Head(str)))

Split(str) == SplitFrom(str, <<>>)

FillText(elem, text, x, y) ==
    [op |-> "fillText", elem |-> elem, text |-> text, x |-> x, y |-> y]

RECURSIVE WrapLoopNoSpace(_, _, _, _, _)
\* the loop measuring the candidate line before its trailing space is added
WrapLoopNoSpace(words, line, currentY, maxWidth, drawn) ==
    IF words = <<>>
    THEN IF line # <<>>
         THEN Append(drawn, FillText("description", line, 60, currentY))
         ELSE drawn
    ELSE LET testLine == line \o Head(words)
         IN  IF measureText(testLine) > maxWidth /\ line # <<>>
             THEN WrapLoopNoSpace(Tail(words), Head(words) \o <<" ">>,
                                  currentY + 30, maxWidth,
                                  Append(drawn, FillText("description", line, 60, currentY)))
             ELSE WrapLoopNoSpace(Tail(words), testLine \o <<" ">>, currentY,
                                  maxWidth, drawn)

RECURSIVE WrapLoopNoFlush(_, _, _, _, _)
\* the loop without the flush of the last line after it
WrapLoopNoFlush(words, line, currentY, maxWidth, drawn) ==
    IF words = <<>> THEN drawn
    ELSE LET testLine == line \o Head(words) \o <<" ">>
         IN  IF measureText(testLine) > maxWidth /\ line # <<>>
             THEN WrapLoopNoFlush(Tail(words), Head(words) \o <<" ">>,
                                  currentY + 30, maxWidth,
                                  Append(drawn, FillText("description", line, 60, currentY)))
             ELSE WrapLoopNoFlush(Tail(words), testLine, currentY, maxWidth, drawn)

RECURSIVE WrapLoop(_, _, _, _, _)
\* the for loop over the words followed by the final flush; lineHeight is 30
WrapLoop(words, line, currentY, maxWidth, drawn) ==
    IF words = <<>>
    THEN IF line # <<>>
         THEN Append(drawn, FillText("description", line, 60, currentY))
         ELSE drawn
    ELSE LET testLine == line \o Head(words) \o <<" ">>
         IN  IF measureText(testLine) > maxWidth /\ line # <<>>
             THEN WrapLoop(Tail(words), Head(words) \o <<" ">>,
                           currentY + 30, maxWidth,
                           Append(drawn, FillText("description", line, 60, currentY)))
             ELSE WrapLoop(Tail(words), testLine, currentY, maxWidth, drawn)

\* Math.floor(options.height * 0.4); for an integer height the double product
\* never falls below the exact product, so the floor is that of 2h/5
BannerHeight(height) == (2 * height) \div 5

descriptionStartY(showBanner, height) ==
    IF showBanner THEN BannerHeight(height) + 300 ELSE 500

\* drawDescription wrapping at the canvas width instead of width - 120
drawDescriptionFullWidth(description, width, height, showBanner) ==
    WrapLoop(Split(description), <<>>, descriptionStartY(showBanner, height),
             width, <<>>)

\* the fillText calls of drawDescription(ctx, description, options)
drawDescription(description, width, height, showBanner) ==
    WrapLoop(Split(description), <<>>, descriptionStartY(showBanner, height),
             width - 120, <<>>)

-----------------------------------------------------------------------------
(* generateCard: arguments, option merge, environment *)

\* defaults of another card size
defaultOptionsSmall ==
    [width |-> 800, height |-> 418, backgroundColor |-> "#000000",
     textColor |-> "#ffffff", accentColor |-> "#1d9bf0",
     fontFamily |-> "Arial, sans-serif", showBanner |-> TRUE,
     showStats |-> TRUE, showDescription |-> TRUE, cardStyle |-> "modern",
     outputFormat |-> "png", quality |-> 90]

defaultOptions ==
    [width |-> 1200, height |-> 630, backgroundColor |-> "#000000",
     textColor |-> "#ffffff", accentColor |-> "#1d9bf0",
     fontFamily |-> "Arial, sans-serif", showBanner |-> TRUE,
     showStats |-> TRUE, showDescription |-> TRUE, cardStyle |-> "modern",
     outputFormat |-> "png", quality |-> 90]

\* the spread written the other way round: a default wins
MergeOptionsDefaultsLast(defaults, given) == defaults @@ given

\* { ...this.defaultOptions, ...options }: a key of options wins
MergeOptions(defaults, given) == given @@ defaults

Unset == [k \in {} |-> 0]

DimensionChoices ==
    {Unset, [width |-> 124], [height |-> 400], [width |-> 124, height |-> 400],
     [width |-> 0], [height |-> 0 - 10], [width |-> 40000, height |-> 400]}

OptionChoices ==
    {wh @@ b @@ s @@ d @@ f @@ c :
        wh \in DimensionChoices,
        b \in {Unset, [showBanner |-> FALSE]},
        s \in {Unset, [showStats |-> FALSE]},
        d \in {Unset, [showDescription |-> FALSE]},
        f \in {Unset, [outputFormat |-> "jpeg"]},
        c \in {Unset, [cardStyle |-> "minimal"]}}

\* an absent optional string is undefined, which is falsy like ""
Truthy(str) == str # ""

AvatarPaths == {"", "downloads/ada/profile_image.jpg", "downloads/ada/profile_image.broken"}
BannerPaths == {"", "downloads/ada/banner_image.jpg", "downloads/ada/banner_image.broken"}

\* the image files on disk that decode; loadImage rejects for any other path
LoadableImages ==
    [p \in {"downloads/ada/profile_image.jpg", "downloads/ada/banner_image.jpg"} |->
        IF p = "downloads/ada/banner_image.jpg"
        THEN [width |-> 1500, height |-> 500]
        ELSE [width |-> 400, height |-> 400]]

Descriptions == {<<>>, <<"W", "i", " ", "i", "W", " ", "i">>}

ProfileChoices ==
    {[name |-> "Ada Lovelace", username |-> "ada", verified |-> v,
      description |-> d, followersCount |-> 1500, followingCount |-> 10,
      tweetCount |-> 42] : v \in BOOLEAN, d \in Descriptions}

AssetChoices ==
    {[profileData |-> p, profileImagePath |-> a, bannerImagePath |-> b] :
        p \in ProfileChoices, a \in AvatarPaths, b \in BannerPaths}

NoPath == [dir |-> <<>>, file |-> <<>>]

ExplicitPath == [dir |-> <<"out", "cards">>, file |-> <<"card.png">>]

\* path.dirname
Dirname(path) == path.dir

\* `${username}_card_${timestamp}.${extension}` under cwd/downloads/username
DefaultOutputPath(username, timestamp, outputFormat) ==
    [dir |-> <<"cwd", "downloads", username>>,
     file |-> <<username, "_card_">> \o timestamp
              \o <<".", IF outputFormat = "jpeg" THEN "jpg" ELSE "png">>]

\* the decimal digits of n, zero-padded on the left to the given length
PadStart(n, len) ==
    LET digits == NatToString(n)
    IN  [i \in 1..(len - Len(digits)) |-> "0"] \o digits

\* Date.prototype.toISOString for an instant t milliseconds after
\* 2024-01-01T00:00:00.000Z, within the first minute
toISOString(t) ==
    <<"2024-01-01T00", ":", "00", ":">> \o PadStart(t \div 1000, 2)
        \o <<".">> \o PadStart(t % 1000, 3) \o <<"Z">>

\* String.prototype.replace(/[:.]/g, '-')
ReplaceColonsAndDots(str) ==
    [i \in 1..Len(str) |-> IF str[i] \in {":", "."} THEN "-" ELSE str[i]]

\* a timestamp that keeps the date and drops the time of day
TimestampDateOnly(t) == <<"2024-01-01">>

\* line 75: new Date().toISOString().replace(/[:.]/g, '-')
Timestamp(t) == ReplaceColonsAndDots(toISOString(t))

\* String.prototype.toUpperCase on the format names
ToUpperCase(str) ==
    IF str = "png" THEN "PNG" ELSE IF str = "jpeg" THEN "JPEG" ELSE str

\* largest width or height the canvas library accepts for an image surface
MaxCanvasDim == 32767

CanvasDimsValid(width, height) ==
    /\ width \in 1..MaxCanvasDim
    /\ height \in 1..MaxCanvasDim

NoResult == [pending |-> TRUE]

NoCanvas == [width |-> 0, height |-> 0, status |-> "none"]

NoBuffer == [encoding |-> "none", size |-> 0]

-----------------------------------------------------------------------------
(* generateCard: the steps of the method (profileCardGenerator.ts 32-107) *)

Thrown(message) == [isError |-> TRUE, message |-> message]

\* a catch block that loses the message
CatchResultNoMessage(error) == [success |-> FALSE]

\* the catch block of generateCard
CatchResult(error) ==
    [success |-> FALSE,
     error |-> IF error.isError THEN error.message ELSE "Unknown error occurred"]

SuccessResult(path, o, stats) ==
    [success |-> TRUE, outputPath |-> path,
     cardInfo |-> [width |-> o.width, height |-> o.height,
                   fileSize |-> stats.size,
                   format |-> ToUpperCase(o.outputFormat)]]

\* lines 38-42: merge the options, createCanvas, getContext.  The canvas
\* library rejects dimensions outside 1..MaxCanvasDim either here or, having
\* handed out a canvas in error state, when the canvas is encoded; an
\* allocation can also fail for valid dimensions.
CreateCanvas ==
    /\ pc = "start"
    /\ opts' = MergeOptions(defaultOptions, options)
    /\ \/ /\ canvas' = [width |-> opts'.width, height |-> opts'.height,
                        status |-> IF CanvasDimsValid(opts'.width, opts'.height)
                                   THEN "ok" ELSE "error"]
          /\ ops' = Append(ops, [op |-> "createCanvas", elem |-> "canvas",
                                 w |-> opts'.width, h |-> opts'.height])
          /\ pc' = "background"
          /\ UNCHANGED result
       \/ /\ result' = CatchResult(Thrown("createCanvas failed"))
          /\ pc' = "done"
          /\ UNCHANGED <<canvas, ops>>
    /\ UNCHANGED <<fmtVars, wrapVars, toolVars, storeVars, cli, run, prev, assets, options, outputPathArg, now, outputPath, buffer,
                   fsDirs, fsFiles, fsDirs0>>

\* lines 45-48: setupCanvas and drawBackground
drawBackground(o) ==
    <<[op |-> "fillRect", elem |-> "background", style |-> o.backgroundColor,
       x |-> 0, y |-> 0, w |-> o.width, h |-> o.height]>>

\* the background step stamping the clock value on the canvas
DrawBackgroundStamped ==
    /\ pc = "background"
    /\ ops' = ops \o drawBackground(opts)
                  \o <<FillText("background", Timestamp(now), 0, 0)>>
    /\ pc' = "banner"
    /\ UNCHANGED <<fmtVars, wrapVars, toolVars, storeVars, cli, run, prev, assets, options, outputPathArg, now, opts, canvas,
                   outputPath, buffer, fsDirs, fsFiles, fsDirs0, result>>

DrawBackground ==
    /\ pc = "background"
    /\ ops' = ops \o drawBackground(opts)
    /\ pc' = "banner"
    /\ UNCHANGED <<fmtVars, wrapVars, toolVars, storeVars, cli, run, prev, assets, options, outputPathArg, now, opts, canvas,
                   outputPath, buffer, fsDirs, fsFiles, fsDirs0, result>>

LoadImage(elem, path) ==
    [op |-> "loadImage", elem |-> elem, path |-> path,
     ok |-> path \in DOMAIN LoadableImages]

\* drawBanner painting the overlay before the image
drawBannerOverlayFirst(bannerPath, o) ==
    IF bannerPath \in DOMAIN LoadableImages
    THEN LET bannerHeight == BannerHeight(o.height)
         IN  <<LoadImage("banner", bannerPath),
               [op |-> "fillRect", elem |-> "banner", style |-> "gradient",
                x |-> 0, y |-> 0, w |-> o.width, h |-> bannerHeight],
               [op |-> "drawImage", elem |-> "banner", x |-> 0, y |-> 0,
                w |-> o.width, h |-> bannerHeight]>>
    ELSE <<LoadImage("banner", bannerPath)>>

\* lines 129-157; x and the banner width are kept as fractions
drawBanner(bannerPath, o) ==
    IF bannerPath \in DOMAIN LoadableImages
    THEN LET bannerImage == LoadableImages[bannerPath]
             bannerHeight == BannerHeight(o.height)
         IN  <<LoadImage("banner", bannerPath),
               [op |-> "drawImage", elem |-> "banner",
                x |-> [num |-> o.width * bannerImage.height
                                  - bannerHeight * bannerImage.width,
                       den |-> 2 * bannerImage.height],
                y |-> 0,
                w |-> [num |-> bannerHeight * bannerImage.width,
                       den |-> bannerImage.height],
                h |-> bannerHeight],
               [op |-> "fillRect", elem |-> "banner", style |-> "gradient",
                x |-> 0, y |-> 0, w |-> o.width, h |-> bannerHeight]>>
    ELSE <<LoadImage("banner", bannerPath)>>

\* the banner step without the try / catch of drawBanner: a failed load
\* reaches the catch block of generateCard
DrawBannerUncaught ==
    /\ pc = "banner"
    /\ IF opts.showBanner /\ Truthy(assets.bannerImagePath)
          /\ assets.bannerImagePath \notin DOMAIN LoadableImages
       THEN /\ ops' = Append(ops, LoadImage("banner", assets.bannerImagePath))
            /\ result' = CatchResult(Thrown("Unsupported image type"))
            /\ pc' = "done"
       ELSE /\ ops' = IF opts.showBanner /\ Truthy(assets.bannerImagePath)
                      THEN ops \o drawBanner(assets.bannerImagePath, opts)
                      ELSE ops
            /\ pc' = "avatar"
            /\ UNCHANGED result
    /\ UNCHANGED <<fmtVars, wrapVars, toolVars, storeVars, cli, run, prev, assets, options, outputPathArg, now, opts,
                   canvas, outputPath, buffer, fsDirs, fsFiles, fsDirs0>>

\* lines 50-53
DrawBanner ==
    /\ pc = "banner"
    /\ ops' = IF opts.showBanner /\ Truthy(assets.bannerImagePath)
              THEN ops \o drawBanner(assets.bannerImagePath, opts)
              ELSE ops
    /\ pc' = "avatar"
    /\ UNCHANGED <<fmtVars, wrapVars, toolVars, storeVars, cli, run, prev, assets, options, outputPathArg, now, opts, canvas,
                   outputPath, buffer, fsDirs, fsFiles, fsDirs0, result>>

\* the avatar offset taken relative to the banner band whatever showBanner is
profileImageYBannerOnly(o) == BannerHeight(o.height) - 60

profileImageY(o) == IF o.showBanner THEN BannerHeight(o.height) - 60 ELSE 60

\* lines 162-191: profileSize 120, x 60
drawProfileImage(profilePath, o) ==
    IF profilePath \in DOMAIN LoadableImages
    THEN LET y == profileImageY(o)
         IN  <<LoadImage("avatar", profilePath),
               [op |-> "clip", elem |-> "avatar", cx |-> 120, cy |-> y + 60, r |-> 60],
               [op |-> "drawImage", elem |-> "avatar", x |-> 60, y |-> y,
                w |-> 120, h |-> 120],
               [op |-> "restore", elem |-> "avatar"],
               [op |-> "stroke", elem |-> "avatar", style |-> o.backgroundColor,
                lineWidth |-> 4, cx |-> 120, cy |-> y + 60, r |-> 60]>>
    ELSE <<LoadImage("avatar", profilePath)>>

\* lines 55-58
DrawProfileImage ==
    /\ pc = "avatar"
    /\ ops' = IF Truthy(assets.profileImagePath)
              THEN ops \o drawProfileImage(assets.profileImagePath, opts)
              ELSE ops
    /\ pc' = "identity"
    /\ UNCHANGED <<fmtVars, wrapVars, toolVars, storeVars, cli, run, prev, assets, options, outputPathArg, now, opts, canvas,
                   outputPath, buffer, fsDirs, fsFiles, fsDirs0, result>>

profileInfoStartY(o) == IF o.showBanner THEN BannerHeight(o.height) + 20 ELSE 200

\* lines 196-224
\* the identity block with the badge drawn for every profile
drawProfileInfoBadgeAlways(profileData, o) ==
    LET startY == profileInfoStartY(o)
    IN  <<FillText("identity", <<profileData.name>>, 60, startY),
          FillText("identity", <<"@", profileData.username>>, 60, startY + 50),
          FillText("identity", <<"Verified">>, 60, startY + 50 + 40)>>

drawProfileInfo(profileData, o) ==
    LET startY == profileInfoStartY(o)
    IN  <<FillText("identity", <<profileData.name>>, 60, startY),
          FillText("identity", <<"@", profileData.username>>, 60, startY + 50)>>
        \o (IF profileData.verified
            THEN <<FillText("identity", <<"Verified">>, 60, startY + 50 + 40)>>
            ELSE <<>>)

\* line 61
DrawProfileInfo ==
    /\ pc = "identity"
    /\ ops' = ops \o drawProfileInfo(assets.profileData, opts)
    /\ pc' = "stats"
    /\ UNCHANGED <<fmtVars, wrapVars, toolVars, storeVars, cli, run, prev, assets, options, outputPathArg, now, opts, canvas,
                   outputPath, buffer, fsDirs, fsFiles, fsDirs0, result>>

\* the stats offset keyed on nothing
statsStartYFixed(o) == 400

statsStartY(o) == IF o.showBanner THEN BannerHeight(o.height) + 200 ELSE 400

\* lines 229-265: x 60, spacing 120
drawStats(profileData, o) ==
    LET startY == statsStartY(o)
    IN  <<FillText("stats", getFormattedFollowersCount(profileData), 60, startY),
          FillText("stats", <<"Followers">>, 60, startY + 30),
          FillText("stats", getFormattedFollowingCount(profileData), 60 + 120, startY),
          FillText("stats", <<"Following">>, 60 + 120, startY + 30),
          FillText("stats", getFormattedTweetCount(profileData), 60 + 120 + 120, startY),
          FillText("stats", <<"Tweets">>, 60 + 120 + 120, startY + 30)>>

\* lines 63-66
\* the stats step leaving the row out for the minimal preset
DrawStatsMinimalHidden ==
    /\ pc = "stats"
    /\ ops' = IF opts.showStats /\ opts.cardStyle # "minimal"
              THEN ops \o drawStats(assets.profileData, opts)
              ELSE ops
    /\ pc' = "description"
    /\ UNCHANGED <<fmtVars, wrapVars, toolVars, storeVars, cli, run, prev, assets, options, outputPathArg, now, opts, canvas,
                   outputPath, buffer, fsDirs, fsFiles, fsDirs0, result>>

DrawStats ==
    /\ pc = "stats"
    /\ ops' = IF opts.showStats THEN ops \o drawStats(assets.profileData, opts)
              ELSE ops
    /\ pc' = "description"
    /\ UNCHANGED <<fmtVars, wrapVars, toolVars, storeVars, cli, run, prev, assets, options, outputPathArg, now, opts, canvas,
                   outputPath, buffer, fsDirs, fsFiles, fsDirs0, result>>

\* lines 68-71: an empty description is falsy
DrawDescription ==
    /\ pc = "description"
    /\ ops' = IF opts.showDescription /\ assets.profileData.description # <<>>
              THEN ops \o drawDescription(assets.profileData.description,
                                          opts.width, opts.height, opts.showBanner)
              ELSE ops
    /\ pc' = "path"
    /\ UNCHANGED <<fmtVars, wrapVars, toolVars, storeVars, cli, run, prev, assets, options, outputPathArg, now, opts, canvas,
                   outputPath, buffer, fsDirs, fsFiles, fsDirs0, result>>

-----------------------------------------------------------------------------
(* generateCard: output path, encode, write *)

Times == {0}

\* log entry of a call of the encode / write stage and whether it returned
FsCall(op, ok) == [op |-> op, elem |-> "file", ok |-> ok]

\* lines 73-79: !outputPath holds for an absent path
ResolveOutputPath ==
    /\ pc = "path"
    /\ outputPath' = IF outputPathArg = NoPath
                     THEN DefaultOutputPath(assets.profileData.username, Timestamp(now),
                                            opts.outputFormat)
                     ELSE outputPathArg
    /\ pc' = "ensureDir"
    /\ UNCHANGED <<fmtVars, wrapVars, toolVars, storeVars, cli, run, prev, assets, options, outputPathArg, now, opts, canvas, ops,
                   buffer, fsDirs, fsFiles, fsDirs0, result>>

\* line 82: fs.ensureDir creates the directory or throws
EnsureDir ==
    /\ pc = "ensureDir"
    /\ \/ /\ fsDirs' = fsDirs \cup {Dirname(outputPath)}
          /\ ops' = Append(ops, FsCall("ensureDir", TRUE))
          /\ pc' = "encode"
          /\ UNCHANGED result
       \/ /\ Dirname(outputPath) \notin fsDirs
          /\ ops' = Append(ops, FsCall("ensureDir", FALSE))
          /\ result' = CatchResult(Thrown("EACCES: permission denied, mkdir"))
          /\ pc' = "done"
          /\ UNCHANGED fsDirs
    /\ UNCHANGED <<fmtVars, wrapVars, toolVars, storeVars, cli, run, prev, assets, options, outputPathArg, now, opts, canvas,
                   outputPath, buffer, fsFiles, fsDirs0>>

\* canvas.toBuffer() without arguments encodes PNG
toBuffer(c) == [encoding |-> "png", size |-> 1 + c.width * c.height]

\* the encode step with the error of toBuffer swallowed and an empty buffer
\* written instead
EncodeErrorSwallowed ==
    /\ pc = "encode"
    /\ \/ /\ canvas.status = "ok"
          /\ buffer' = toBuffer(canvas)
          /\ ops' = Append(ops, FsCall("toBuffer", TRUE))
       \/ /\ buffer' = [encoding |-> "none", size |-> 0]
          /\ ops' = Append(ops, FsCall("toBuffer", FALSE))
    /\ pc' = "write"
    /\ UNCHANGED <<fmtVars, wrapVars, toolVars, storeVars, cli, run, prev, assets, options, outputPathArg, now, opts,
                   canvas, outputPath, fsDirs, fsFiles, fsDirs0, result>>

\* line 85: encoding can fail, and does for a canvas in error state
Encode ==
    /\ pc = "encode"
    /\ \/ /\ canvas.status = "ok"
          /\ buffer' = toBuffer(canvas)
          /\ ops' = Append(ops, FsCall("toBuffer", TRUE))
          /\ pc' = "write"
          /\ UNCHANGED result
       \/ /\ ops' = Append(ops, FsCall("toBuffer", FALSE))
          /\ result' = CatchResult(Thrown("toBuffer failed"))
          /\ pc' = "done"
          /\ UNCHANGED buffer
    /\ UNCHANGED <<fmtVars, wrapVars, toolVars, storeVars, cli, run, prev, assets, options, outputPathArg, now, opts, canvas,
                   outputPath, fsDirs, fsFiles, fsDirs0>>

FilesExcept(files, path) == {f \in files : f.path # path}

\* line 86: fs.writeFile replaces the file; when it fails the file may not
\* have been created, or may be left with part of the data
WriteFile ==
    /\ pc = "write"
    /\ \/ /\ fsFiles' = FilesExcept(fsFiles, outputPath)
                        \cup {[path |-> outputPath, content |-> buffer]}
          /\ ops' = Append(ops, FsCall("writeFile", TRUE))
          /\ pc' = "stat"
          /\ UNCHANGED result
       \/ /\ \/ UNCHANGED fsFiles
             \/ fsFiles' = FilesExcept(fsFiles, outputPath)
                           \cup {[path |-> outputPath,
                                  content |-> [encoding |-> "truncated", size |-> 0]]}
          /\ ops' = Append(ops, FsCall("writeFile", FALSE))
          /\ result' = CatchResult(Thrown("ENOSPC: no space left on device, write"))
          /\ pc' = "done"
    /\ UNCHANGED <<fmtVars, wrapVars, toolVars, storeVars, cli, run, prev, assets, options, outputPathArg, now, opts, canvas,
                   outputPath, buffer, fsDirs, fsDirs0>>

StatOf(files, path) == (CHOOSE f \in files : f.path = path).content

\* lines 88-99: fs.stat, then the success result
Stat ==
    /\ pc = "stat"
    /\ \/ /\ ops' = Append(ops, FsCall("stat", TRUE))
          /\ result' = SuccessResult(outputPath, opts, StatOf(fsFiles, outputPath))
       \/ /\ ops' = Append(ops, FsCall("stat", FALSE))
          /\ result' = CatchResult(Thrown("EIO: i/o error, stat"))
    /\ pc' = "done"
    /\ UNCHANGED <<fmtVars, wrapVars, toolVars, storeVars, cli, run, prev, assets, options, outputPathArg, now, opts, canvas,
                   outputPath, buffer, fsDirs, fsFiles, fsDirs0>>

-----------------------------------------------------------------------------
(* Specification of one generateCard call *)

\* nothing remembered of an earlier call
NoPrev == [ops |-> <<>>, outputPath |-> NoPath, now |-> 0, fsFiles |-> {},
           result |-> NoResult, options |-> Unset]

-----------------------------------------------------------------------------
(* The stored record: toCSVRow, createCSVContent, escapeCSVField.  A string *)
(* is a sequence of tokens; "," "\n" and "\"" are tokens of their own and   *)
(* any other token stands for a run of characters without these three.      *)

\* JavaScript values of the row object
Str(s) == [t |-> "string", v |-> s]
Bool(b) == [t |-> "boolean", v |-> b]
Num(n) == [t |-> "number", v |-> n]

\* the instant toCSVRow reads for created_at
CreatedAt == <<"2024-01-01T00:00:00.000Z">>

\* types.ts toCSVRow: the keys in insertion order with their values
toCSVRow(p) ==
    << <<"id", Str(p.id)>>, <<"name", Str(p.name)>>,
       <<"username", Str(p.username)>>, <<"description", Str(p.description)>>,
       <<"verified", Bool(p.verified)>>,
       <<"followers_count", Num(p.followersCount)>>,
       <<"following_count", Num(p.followingCount)>>,
       <<"tweet_count", Num(p.tweetCount)>>,
       <<"listed_count", Num(p.listedCount)>>,
       <<"like_count", Num(p.likeCount)>>,
       <<"media_count", Num(p.mediaCount)>>,
       <<"subscribes_to_you", Bool(p.subscribesToYou)>>,
       <<"subscription_type", Str(p.subscriptionType)>>,
       <<"profile_image_url", Str(p.profileImageUrl)>>,
       <<"profile_banner_url", Str(p.profileBannerUrl)>>,
       <<"created_at", Str(CreatedAt)>> >>

\* Object.keys(row)
ObjectKeys(row) == [i \in 1..Len(row) |-> row[i][1]]

\* row[header]
Lookup(row, header) ==
    row[CHOOSE i \in 1..Len(row) : row[i][1] = header][2]

\* value || '': '', false and 0 are falsy
OrEmptyString(value) ==
    IF \/ value.t = "string" /\ value.v = <<>>
       \/ value.t = "boolean" /\ value.v = FALSE
       \/ value.t = "number" /\ value.v = 0
    THEN Str(<<>>)
    ELSE value

\* String(value)
StringOf(value) ==
    IF value.t = "string" THEN value.v
    ELSE IF value.t = "boolean"
         THEN (IF value.v THEN <<"true">> ELSE <<"false">>)
         ELSE NatToString(value.v)

\* stringValue.replace(/"/g, '""')
RECURSIVE DoubleQuotes(_)
DoubleQuotes(s) ==
    IF s = <<>> THEN <<>>
    ELSE (IF Head(s) = "\"" THEN <<"\"", "\"">> ELSE <<Head(s)>>)
         \o DoubleQuotes(Tail(s))

Includes(s, ch) == \E i \in 1..Len(s) : s[i] = ch

\* escapeCSVField without the quoting
escapeCSVFieldPlain(value) == StringOf(value)

\* csvExporter.ts escapeCSVField, for a value that is not null or undefined
escapeCSVField(value) ==
    LET stringValue == StringOf(value)
    IN  IF Includes(stringValue, ",") \/ Includes(stringValue, "\n")
           \/ Includes(stringValue, "\"")
        THEN <<"\"">> \o DoubleQuotes(stringValue) \o <<"\"">>
        ELSE stringValue

\* Array.prototype.join
RECURSIVE Join(_, _)
Join(parts, sep) ==
    IF parts = <<>> THEN <<>>
    ELSE IF Len(parts) = 1 THEN parts[1]
    ELSE parts[1] \o <<sep>> \o Join(Tail(parts), sep)

\* csvExporter.ts createCSVContent
createCSVContent(data) ==
    IF Len(data) = 0 THEN <<>>
    ELSE LET headers == ObjectKeys(data[1])
             headerRow ==
                 Join([i \in 1..Len(headers) |-> escapeCSVField(Str(<<headers[i]>>))],
                      ",")
             dataRows ==
                 [r \in 1..Len(data) |->
                     Join([i \in 1..Len(headers) |->
                              escapeCSVField(OrEmptyString(Lookup(data[r], headers[i])))],
                          ",")]
         IN  Join(<<headerRow>> \o dataRows, "\n") \o <<"\n">>

\* a file of the record store
File(content) == [exists |-> TRUE, content |-> content]

\* no record file
NoFile == [exists |-> FALSE, content |-> <<>>]

Usernames == {"ada", "bob"}

\* the username of a profile, one token, as a path component
Handle(p) == p.username[1]

-----------------------------------------------------------------------------
(* loadAssetsFromDirectory *)

RECURSIVE SplitOnFrom(_, _, _)
SplitOnFrom(str, sep, field) ==
    IF str = <<>> THEN <<field>>
    ELSE IF Head(str) = sep
         THEN <<field>> \o SplitOnFrom(Tail(str), sep, <<>>)
         ELSE SplitOnFrom(Tail(str), sep, Append(field, Head(str)))

\* String.prototype.split(sep) for a one-character separator
SplitOn(str, sep) == SplitOnFrom(str, sep, <<>>)

\* data[i], undefined past the end of the array
At(data, i) ==
    IF i + 1 <= Len(data)
    THEN [defined |-> TRUE, v |-> data[i + 1]]
    ELSE [defined |-> FALSE, v |-> <<>>]

\* data[i] || ''
StringOrEmpty(x) == IF x.defined THEN x.v ELSE <<>>

\* data[i] === 'true'
IsTrueString(x) == x.defined /\ x.v = <<"true">>

IsDigitToken(ch) == \E d \in 0..9 : DigitChar(d) = ch

RECURSIVE DigitsPrefixValue(_, _)
\* the number read from the leading decimal digits of str, after acc
DigitsPrefixValue(str, acc) ==
    IF str = <<>> \/ ~IsDigitToken(Head(str)) THEN acc
    ELSE DigitsPrefixValue(Tail(str),
             10 * acc + (CHOOSE d \in 0..9 : DigitChar(d) = Head(str)))

\* parseInt(data[i]) || 0: NaN (no leading digit, or undefined) gives 0
ParseIntOrZero(x) ==
    IF x.defined /\ x.v # <<>> /\ IsDigitToken(Head(x.v))
    THEN DigitsPrefixValue(x.v, 0)
    ELSE 0

\* lines 326-347: the TwitterProfileData built from the fields of the data
\* line
ProfileFromFields(data) ==
    [id |-> StringOrEmpty(At(data, 0)),
     name |-> StringOrEmpty(At(data, 1)),
     username |-> StringOrEmpty(At(data, 2)),
     description |-> StringOrEmpty(At(data, 3)),
     profileImageUrl |-> StringOrEmpty(At(data, 13)),
     profileBannerUrl |-> StringOrEmpty(At(data, 14)),
     verified |-> IsTrueString(At(data, 4)),
     followersCount |-> ParseIntOrZero(At(data, 5)),
     followingCount |-> ParseIntOrZero(At(data, 6)),
     tweetCount |-> ParseIntOrZero(At(data, 7)),
     listedCount |-> ParseIntOrZero(At(data, 8)),
     likeCount |-> ParseIntOrZero(At(data, 9)),
     mediaCount |-> ParseIntOrZero(At(data, 10)),
     subscribesToYou |-> IsTrueString(At(data, 11)),
     subscriptionType |-> StringOrEmpty(At(data, 12))]

LoadThrown(username, cause) ==
    [status |-> "thrown",
     message |-> <<"Failed to load profile data for ", username, ": ", cause>>]

\* lines 320-352 with a missing or unusable record giving an empty profile
\* instead of an exception
ReadProfileDataLenient(username, file) ==
    LET lines == SplitOn(file.content, "\n")
    IN  [status |-> "ok",
         profileData |-> ProfileFromFields(
             IF file.exists /\ Len(lines) >= 2 THEN SplitOn(lines[2], ",") ELSE <<>>)]

\* lines 320-352: readFile, the two splits, the profile; readFile rejects
\* for a missing file and lines[1].split throws when there is no second line
ReadProfileData(username, file) ==
    IF ~file.exists
    THEN LoadThrown(username, "Error: ENOENT: no such file or directory")
    ELSE LET lines == SplitOn(file.content, "\n")
         IN  IF Len(lines) < 2
             THEN LoadThrown(username,
                      "TypeError: Cannot read properties of undefined (reading 'split')")
             ELSE [status |-> "ok",
                   profileData |-> ProfileFromFields(SplitOn(lines[2], ","))]

\* path.join(downloadsDir, username, name) for downloadsDir "downloads"
AssetPath(username, name) == "downloads/" \o username \o "/" \o name

\* an image file of a user directory
ImageFile(username, name) == [user |-> username, name |-> name]

\* fs.pathExists(path.join(downloadsDir, username, name))
PathExists(d, username, name) == ImageFile(username, name) \in d.images

\* the banner looked for only when the avatar is there
CheckAssetFilesNested(profileData, username, d) ==
    [status |-> "assets", profileData |-> profileData,
     profileImagePath |-> IF PathExists(d, username, "profile_image.jpg")
                          THEN AssetPath(username, "profile_image.jpg") ELSE "",
     bannerImagePath |-> IF /\ PathExists(d, username, "profile_image.jpg")
                            /\ PathExists(d, username, "banner_image.jpg")
                         THEN AssetPath(username, "banner_image.jpg") ELSE ""]

\* lines 354-367: the two pathExists checks; "" for a path left unset
CheckAssetFiles(profileData, username, d) ==
    [status |-> "assets", profileData |-> profileData,
     profileImagePath |-> IF PathExists(d, username, "profile_image.jpg")
                          THEN AssetPath(username, "profile_image.jpg") ELSE "",
     bannerImagePath |-> IF PathExists(d, username, "banner_image.jpg")
                         THEN AssetPath(username, "banner_image.jpg") ELSE ""]

\* profileCardGenerator.ts loadAssetsFromDirectory(username, downloadsDir)
loadAssetsFromDirectory(username, d) ==
    LET read == ReadProfileData(username, d.csv[username])
    IN  IF read.status = "thrown" THEN read
        ELSE CheckAssetFiles(read.profileData, username, d)

NotLoaded == [status |-> "pending"]

NoProfile == [none |-> TRUE]

\* a command or helper that has not been called
NotCalled == [status |-> "idle"]

IdleTools ==
    /\ download = NotCalled
    /\ master = NotCalled
    /\ parse = NotCalled
    /\ cards = NotCalled
    /\ cleanup = NotCalled
    /\ batch = NotCalled

\* no record on disk, nothing exported, generate-card not invoked
IdleStore ==
    /\ disk = [csv |-> [u \in Usernames |-> NoFile], images |-> {}]
    /\ sProfile = NoProfile
    /\ cliUsername = ""
    /\ loaded = NotLoaded
    /\ cli = "idle"
    /\ IdleTools

IdleFormat ==
    /\ fProfile = [g \in CountFields |-> 0]
    /\ fResult = NoFormatted
    /\ fpc = "idle"

IdleWrap ==
    /\ wDescription = <<>>
    /\ wOptions = [width |-> 0, height |-> 0, showBanner |-> FALSE]
    /\ wOps = <<>>
    /\ wpc = "idle"

IdleGenerateCard ==
    /\ assets = [profileData |-> [name |-> "", username |-> "", verified |-> FALSE,
                                  description |-> <<>>, followersCount |-> 0,
                                  followingCount |-> 0, tweetCount |-> 0],
                 profileImagePath |-> "", bannerImagePath |-> ""]
    /\ options = Unset
    /\ outputPathArg = NoPath
    /\ now = 0
    /\ pc = "idle"
    /\ opts = defaultOptions
    /\ canvas = NoCanvas
    /\ ops = <<>>
    /\ outputPath = NoPath
    /\ buffer = NoBuffer
    /\ fsDirs = {}
    /\ fsFiles = {}
    /\ fsDirs0 = {}
    /\ run = 1
    /\ prev = NoPrev
    /\ result = NoResult

IdleCard == IdleGenerateCard /\ IdleStore

Init ==
    /\ IdleFormat
    /\ IdleWrap
    /\ assets \in AssetChoices
    /\ options \in OptionChoices
    /\ outputPathArg \in {NoPath, ExplicitPath}
    /\ now \in Times
    /\ pc = "start"
    /\ opts = defaultOptions
    /\ canvas = NoCanvas
    /\ ops = <<>>
    /\ outputPath = NoPath
    /\ buffer = NoBuffer
    /\ \E dirExists \in BOOLEAN :
          fsDirs = IF dirExists
                   THEN {Dirname(IF outputPathArg = NoPath
                                 THEN DefaultOutputPath(assets.profileData.username, Timestamp(now),
                                          MergeOptions(defaultOptions, options).outputFormat)
                                 ELSE outputPathArg)}
                   ELSE {}
    /\ fsFiles = {}
    /\ fsDirs0 = fsDirs
    /\ run = 1
    /\ prev = NoPrev
    /\ result = NoResult
    /\ IdleStore

Next ==
    \/ CreateCanvas
    \/ DrawBackground
    \/ DrawBanner
    \/ DrawProfileImage
    \/ DrawProfileInfo
    \/ DrawStats
    \/ DrawDescription
    \/ ResolveOutputPath
    \/ EnsureDir
    \/ Encode
    \/ WriteFile
    \/ Stat

Spec == Init /\ [][Next]_vars

-----------------------------------------------------------------------------
(* Specification of the count getters *)

NextFormat ==
    \/ GetFormattedFollowersCount
    \/ GetFormattedFollowingCount
    \/ GetFormattedTweetCount

InitFormat ==
    /\ NewProfile
    /\ IdleWrap
    /\ IdleCard

SpecFormat == InitFormat /\ [][NextFormat]_vars

-----------------------------------------------------------------------------
(* Specification of drawDescription on its own *)

DescriptionStrings == UNION {[1..n -> Alphabet] : n \in 0..MaxDescLen}

WrapOptionChoices ==
    {[width |-> w, height |-> 630, showBanner |-> b] :
        w \in {123, 125, 127}, b \in BOOLEAN}

InitWrap ==
    /\ wDescription \in DescriptionStrings
    /\ wOptions \in WrapOptionChoices
    /\ wOps = <<>>
    /\ wpc = "new"
    /\ IdleFormat
    /\ IdleCard

DrawDescriptionCall ==
    /\ wpc = "new"
    /\ wOps' = drawDescription(wDescription, wOptions.width, wOptions.height,
                               wOptions.showBanner)
    /\ wpc' = "done"
    /\ UNCHANGED <<wDescription, wOptions, fmtVars, cardVars>>

NextWrap == DrawDescriptionCall

SpecWrap == InitWrap /\ [][NextWrap]_vars

-----------------------------------------------------------------------------
(* Specification of two generateCard calls, one after the other, with the  *)
(* same assets, options and outputPath argument                            *)

\* the clock values a call can read, in milliseconds
ClockValues == {0, 999, 1000, 1999}

AssetChoicesTwice ==
    {a \in AssetChoices :
        a.profileData.verified /\ a.profileData.description # <<>>}

OptionChoicesTwice ==
    {Unset, [outputFormat |-> "jpeg"], [showBanner |-> FALSE], [width |-> 0]}

InitTwice ==
    /\ IdleFormat
    /\ IdleWrap
    /\ assets \in AssetChoicesTwice
    /\ options \in OptionChoicesTwice
    /\ outputPathArg \in {NoPath, ExplicitPath}
    /\ now \in {t \in ClockValues : t < 1000}
    /\ pc = "start"
    /\ opts = defaultOptions
    /\ canvas = NoCanvas
    /\ ops = <<>>
    /\ outputPath = NoPath
    /\ buffer = NoBuffer
    /\ fsDirs \in {{}, {Dirname(ExplicitPath)}}
    /\ fsFiles = {}
    /\ fsDirs0 = fsDirs
    /\ run = 1
    /\ prev = NoPrev
    /\ result = NoResult
    /\ IdleStore

\* generateCard is called again once the first call has returned: the file
\* system stays as the first call left it and the clock has not gone back
Rerun ==
    /\ pc = "done"
    /\ run = 1
    /\ prev' = [ops |-> ops, outputPath |-> outputPath, now |-> now,
                fsFiles |-> fsFiles, result |-> result, options |-> options]
    /\ run' = 2
    /\ now' \in {t \in ClockValues : t >= now}
    /\ pc' = "start"
    /\ opts' = defaultOptions
    /\ canvas' = NoCanvas
    /\ ops' = <<>>
    /\ outputPath' = NoPath
    /\ buffer' = NoBuffer
    /\ fsDirs0' = fsDirs
    /\ result' = NoResult
    /\ UNCHANGED <<fmtVars, wrapVars, toolVars, storeVars, cli, assets, options, outputPathArg,
                   fsDirs, fsFiles>>

NextTwice ==
    \/ CreateCanvas
    \/ DrawBackground
    \/ DrawBanner
    \/ DrawProfileImage
    \/ DrawProfileInfo
    \/ DrawStats
    \/ DrawDescription
    \/ ResolveOutputPath
    \/ EnsureDir
    \/ Encode
    \/ WriteFile
    \/ Stat
    \/ Rerun

SpecTwice == InitTwice /\ [][NextTwice]_vars

-----------------------------------------------------------------------------
(* Specification of two generateCard calls that differ in one option *)

\* one option set to another value, the rest of the options as they were
OneOptionChanges ==
    {[cardStyle |-> "classic"], [cardStyle |-> "minimal"],
     [showStats |-> FALSE], [showDescription |-> FALSE]}

\* generateCard is called again with the same assets and one option changed
Restyle ==
    /\ pc = "done"
    /\ run = 1
    /\ prev' = [ops |-> ops, outputPath |-> outputPath, now |-> now,
                fsFiles |-> fsFiles, result |-> result, options |-> options]
    /\ run' = 2
    /\ \E change \in OneOptionChanges : options' = change @@ options
    /\ pc' = "start"
    /\ opts' = defaultOptions
    /\ canvas' = NoCanvas
    /\ ops' = <<>>
    /\ outputPath' = NoPath
    /\ buffer' = NoBuffer
    /\ fsDirs0' = fsDirs
    /\ result' = NoResult
    /\ UNCHANGED <<fmtVars, wrapVars, toolVars, storeVars, cli, assets, outputPathArg, now,
                   fsDirs, fsFiles>>

NextRestyle ==
    \/ CreateCanvas
    \/ DrawBackground
    \/ DrawBanner
    \/ DrawProfileImage
    \/ DrawProfileInfo
    \/ DrawStats
    \/ DrawDescription
    \/ ResolveOutputPath
    \/ EnsureDir
    \/ Encode
    \/ WriteFile
    \/ Stat
    \/ Restyle

SpecRestyle == InitTwice /\ [][NextRestyle]_vars

-----------------------------------------------------------------------------
(* Specification of the record store: exportProfileData, then the          *)
(* generate-card command (loadAssetsFromDirectory, generateCard)           *)

MaxFieldLen == 2

StoreAlphabet == {"a", ",", "\n", "\""}

\* strings over the alphabet, up to the bound
StoreStrings ==
    UNION {[1..n -> StoreAlphabet] : n \in 0..MaxFieldLen}

StoreProfiles ==
    {[id |-> <<"17">>, name |-> <<"Ada">>, username |-> <<"ada">>,
      description |-> d, profileImageUrl |-> <<"https://pbs.example/a.jpg">>,
      profileBannerUrl |-> <<>>, verified |-> v, followersCount |-> f,
      followingCount |-> 10, tweetCount |-> 42, listedCount |-> 0,
      likeCount |-> 7, mediaCount |-> 0, subscribesToYou |-> FALSE,
      subscriptionType |-> <<>>] :
        d \in StoreStrings, v \in BOOLEAN, f \in {0, 1500}}

\* record files that did not come out of a complete exportProfileData: an
\* empty file, a header without a data line, a header and an empty data
\* line, a data line cut short
ForeignRecords ==
    {<<>>,
     <<"id", ",", "name">>,
     <<"id", ",", "name", "\n">>,
     <<"id", ",", "name", "\n", "17", ",", "Ada", ",", "ada">>}

InitStore ==
    /\ IdleFormat
    /\ IdleWrap
    /\ IdleGenerateCard
    /\ IdleTools
    /\ \E imgs \in SUBSET {ImageFile("ada", "profile_image.jpg"),
                             ImageFile("ada", "banner_image.jpg")} :
          \/ /\ sProfile \in {[profile |-> p, exported |-> FALSE] : p \in StoreProfiles}
             /\ disk = [csv |-> [u \in Usernames |-> NoFile],
                        images |-> imgs]
          \/ /\ sProfile = NoProfile
             /\ \E c \in ForeignRecords :
                   disk = [csv |-> [u \in Usernames |->
                                      IF u = "ada" THEN File(c) ELSE NoFile],
                           images |-> imgs]
    /\ cliUsername \in Usernames
    /\ loaded = NotLoaded
    /\ cli = "idle"

\* csvExporter.ts exportProfileData(profileData, userDir)
ExportProfileData ==
    /\ cli = "idle"
    /\ sProfile # NoProfile
    /\ ~sProfile.exported
    /\ disk' = [disk EXCEPT !.csv[Handle(sProfile.profile)] =
                   File(createCSVContent(<<toCSVRow(sProfile.profile)>>))]
    /\ sProfile' = [sProfile EXCEPT !.exported = TRUE]
    /\ UNCHANGED <<fmtVars, wrapVars, toolVars, cliUsername, loaded, cli, assets, options,
                   outputPathArg, now, pc, opts, canvas, ops, outputPath, buffer,
                   fsDirs, fsFiles, fsDirs0, run, prev, result>>

\* cli.ts lines 301-308 and 342-345: the command loads the assets; an
\* exception goes to the catch of the action, which exits with code 1
CliLoadAssets ==
    /\ cli = "idle"
    /\ loaded' = loadAssetsFromDirectory(cliUsername, disk)
    /\ cli' = IF loaded'.status = "thrown" THEN "exit1" ELSE "loaded"
    /\ UNCHANGED <<fmtVars, wrapVars, toolVars, disk, sProfile, cliUsername, assets, options,
                   outputPathArg, now, pc, opts, canvas, ops, outputPath, buffer,
                   fsDirs, fsFiles, fsDirs0, run, prev, result>>

\* cli.ts lines 310-322: the options of the command line at their defaults
CliCardOptions ==
    [width |-> 1200, height |-> 630, cardStyle |-> "modern",
     outputFormat |-> "png", showBanner |-> TRUE, showStats |-> TRUE,
     showDescription |-> TRUE, backgroundColor |-> "#000000",
     textColor |-> "#ffffff", accentColor |-> "#1d9bf0"]

\* cli.ts line 326: generateCard(assets, cardOptions) is called
CliGenerateCard ==
    /\ cli = "loaded"
    /\ assets' = [profileData |-> loaded.profileData,
                  profileImagePath |-> loaded.profileImagePath,
                  bannerImagePath |-> loaded.bannerImagePath]
    /\ options' = CliCardOptions
    /\ now' \in Times
    /\ pc' = "start"
    /\ cli' = "generating"
    /\ UNCHANGED <<fmtVars, wrapVars, toolVars, storeVars, outputPathArg, opts, canvas, ops,
                   outputPath, buffer, fsDirs, fsFiles, fsDirs0, run, prev, result>>

\* cli.ts lines 328-340: report, exit code 1 for a failure result
CliReport ==
    /\ cli = "generating"
    /\ pc = "done"
    /\ cli' = IF result.success THEN "exit0" ELSE "exit1"
    /\ UNCHANGED <<fmtVars, wrapVars, toolVars, storeVars, assets, options, outputPathArg, now,
                   pc, opts, canvas, ops, outputPath, buffer, fsDirs, fsFiles,
                   fsDirs0, run, prev, result>>

NextStore ==
    \/ ExportProfileData
    \/ CliLoadAssets
    \/ CliGenerateCard
    \/ CreateCanvas
    \/ DrawBackground
    \/ DrawBanner
    \/ DrawProfileImage
    \/ DrawProfileInfo
    \/ DrawStats
    \/ DrawDescription
    \/ ResolveOutputPath
    \/ EnsureDir
    \/ Encode
    \/ WriteFile
    \/ Stat
    \/ CliReport

SpecStore == InitStore /\ [][NextStore]_vars

-----------------------------------------------------------------------------
(* AssetDownloader.downloadProfileAssets, followed by the export of the    *)
(* record and loadAssetsFromDirectory.  A URL is a sequence of tokens: "." *)
(* and "?" are tokens of their own, any other token is a run of characters *)
(* without these two.                                                      *)

\* null, which is falsy like the empty string
Null == ""

\* String.prototype.toLowerCase on the tokens used here
ToLowerCase(str) ==
    IF str = "IMAGE/PNG" THEN "image/png"
    ELSE IF str = "PNG" THEN "png"
    ELSE str

\* the typeMap of getExtensionFromContentType
typeMap ==
    [t \in {"image/jpeg", "image/jpg", "image/png", "image/gif", "image/webp",
            "image/svg+xml"} |->
        IF t \in {"image/jpeg", "image/jpg"} THEN ".jpg"
        ELSE IF t = "image/png" THEN ".png"
        ELSE IF t = "image/gif" THEN ".gif"
        ELSE IF t = "image/webp" THEN ".webp"
        ELSE ".svg"]

\* getExtensionFromContentType; "" stands for a response without the header
getExtensionFromContentType(contentType) ==
    IF ToLowerCase(contentType) \in DOMAIN typeMap
    THEN typeMap[ToLowerCase(contentType)]
    ELSE Null

UrlExtensions == {"jpg", "jpeg", "png", "gif", "webp", "svg"}

\* positions where /\.(jpg|jpeg|png|gif|webp|svg)(\?|$)/i matches
UrlExtensionMatches(url) ==
    {i \in 1..(Len(url) - 1) :
        /\ url[i] = "."
        /\ ToLowerCase(url[i + 1]) \in UrlExtensions
        /\ (i + 1 = Len(url) \/ url[i + 2] = "?")}

\* getExtensionFromUrl: the leftmost match, lower-cased, after a dot
getExtensionFromUrl(url) ==
    LET matches == UrlExtensionMatches(url)
    IN  IF matches = {} THEN Null
        ELSE LET i == CHOOSE m \in matches : \A n \in matches : m <= n
             IN  "." \o ToLowerCase(url[i + 1])

\* a || b
Or(a, b) == IF a # "" THEN a ELSE b

\* lines 90-93: content type first, then the URL, then .jpg
ExtensionOf(contentType, url) ==
    Or(Or(getExtensionFromContentType(contentType), getExtensionFromUrl(url)), ".jpg")

\* the responses of axios.get: a failure, or the bytes with a content type
ContentTypes == {"image/jpeg", "IMAGE/PNG", "image/webp", "text/html", ""}

Responses ==
    {[ok |-> FALSE, contentType |-> ""]}
        \cup {[ok |-> TRUE, contentType |-> c] : c \in ContentTypes}

ImageUrls ==
    {<<>>,
     <<"https://pbs.example/a", ".", "jpg">>,
     <<"https://pbs.example/b", ".", "PNG", "?", "v=1">>,
     <<"https://pbs.example/c">>}

DownloadProfiles ==
    {[id |-> <<"17">>, name |-> <<"Ada">>, username |-> <<"ada">>,
      description |-> <<"a">>, profileImageUrl |-> a, profileBannerUrl |-> b,
      verified |-> TRUE, followersCount |-> 1500, followingCount |-> 10,
      tweetCount |-> 42, listedCount |-> 0, likeCount |-> 7, mediaCount |-> 0,
      subscribesToYou |-> FALSE, subscriptionType |-> <<>>] :
        a \in ImageUrls, b \in ImageUrls}

\* lines 28-34: the result object
NewDownloadResult(username) ==
    [username |-> username, userDir |-> "downloads/" \o username,
     profileImage |-> Null, bannerImage |-> Null, errors |-> <<>>]

InitDownload ==
    /\ IdleFormat
    /\ IdleWrap
    /\ IdleGenerateCard
    /\ sProfile \in {[profile |-> p, exported |-> FALSE] : p \in DownloadProfiles}
    /\ disk = [csv |-> [u \in Usernames |-> NoFile], images |-> {}]
    /\ cliUsername = "ada"
    /\ loaded = NotLoaded
    /\ cli = "idle"
    /\ download = [status |-> "called", attempts |-> <<>>,
                   result |-> NewDownloadResult("ada")]
    /\ master = NotCalled
    /\ parse = NotCalled
    /\ cards = NotCalled
    /\ cleanup = NotCalled
    /\ batch = NotCalled

DownloadUnchanged ==
    UNCHANGED <<fmtVars, wrapVars, sProfile, cliUsername, loaded, cli, assets,
                options, outputPathArg, now, pc, opts, canvas, ops, outputPath,
                buffer, fsDirs, fsFiles, fsDirs0, run, prev, result, master,
                parse, cards, cleanup, batch>>

\* line 26: fs.ensureDir outside any try, so its failure leaves the call
DownloadEnsureDir ==
    /\ download.status = "called"
    /\ \/ download' = [download EXCEPT !.status = "profileImage"]
       \/ download' = [download EXCEPT !.status = "thrown"]
    /\ UNCHANGED disk
    /\ DownloadUnchanged

\* downloadImage(url, userDir, filename): the file written and the path
\* returned, or the failure of axios.get or of writeFile
DownloadImage(which, url, filename, label, next) ==
    \/ /\ url = <<>>
       /\ download' = [download EXCEPT !.status = next]
       /\ UNCHANGED disk
    \/ /\ url # <<>>
       /\ \E response \in Responses, written \in BOOLEAN :
             LET fullFilename ==
                     filename \o ExtensionOf(response.contentType, url)
                 done == response.ok /\ written
             IN  /\ disk' = IF done
                            THEN [disk EXCEPT !.images =
                                     @ \cup {ImageFile(download.result.username,
                                                       fullFilename)}]
                            ELSE disk
                 /\ download' =
                        [download EXCEPT
                            !.status = next,
                            !.attempts = Append(@, [image |-> which, ok |-> done]),
                            !.result[which] =
                                IF done
                                THEN download.result.userDir \o "/" \o fullFilename
                                ELSE @,
                            !.result.errors =
                                IF done THEN @
                                ELSE Append(@, <<"Failed to download ", label, ": ",
                                                 "Error: Failed to download image">>)]

\* the avatar download with its failure leaving downloadProfileAssets
DownloadProfileImageUncaught ==
    /\ download.status = "profileImage"
    /\ \/ DownloadImage("profileImage", sProfile.profile.profileImageUrl,
                        "profile_image", "profile image", "bannerImage")
       \/ /\ sProfile.profile.profileImageUrl # <<>>
          /\ download' = [download EXCEPT
                              !.status = "thrown",
                              !.attempts = Append(@, [image |-> "profileImage",
                                                      ok |-> FALSE])]
          /\ UNCHANGED disk
    /\ DownloadUnchanged

\* lines 36-48
DownloadProfileImage ==
    /\ download.status = "profileImage"
    /\ DownloadImage("profileImage", sProfile.profile.profileImageUrl,
                     "profile_image", "profile image", "bannerImage")
    /\ DownloadUnchanged

\* lines 50-64
DownloadBannerImage ==
    /\ download.status = "bannerImage"
    /\ DownloadImage("bannerImage", sProfile.profile.profileBannerUrl,
                     "banner_image", "banner image", "returned")
    /\ DownloadUnchanged

\* cli.ts lines 80-86: the record is exported once the downloads are over
ExportDownloaded ==
    /\ download.status = "returned"
    /\ ExportProfileData

\* loadAssetsFromDirectory for the user whose assets were downloaded
LoadDownloaded ==
    /\ download.status = "returned"
    /\ sProfile.exported
    /\ CliLoadAssets

NextDownload ==
    \/ DownloadEnsureDir
    \/ DownloadProfileImage
    \/ DownloadBannerImage
    \/ ExportDownloaded
    \/ LoadDownloaded

SpecDownload == InitDownload /\ [][NextDownload]_vars

-----------------------------------------------------------------------------
(* CSVExporter.createMasterCSV.  A file name is a sequence of tokens whose  *)
(* last token is its ending.                                                *)

IsSpace(ch) == ch \in {" ", "\n"}

RECURSIVE TrimStart(_)
TrimStart(s) ==
    IF s # <<>> /\ IsSpace(Head(s)) THEN TrimStart(Tail(s)) ELSE s

RECURSIVE TrimEnd(_)
TrimEnd(s) ==
    IF s # <<>> /\ IsSpace(s[Len(s)]) THEN TrimEnd(SubSeq(s, 1, Len(s) - 1)) ELSE s

\* String.prototype.trim
Trim(s) == TrimEnd(TrimStart(s))

RECURSIVE ParseLineFrom(_, _, _, _, _)
\* the for loop of parseCSVLine from index i (1-based)
ParseLineFrom(line, i, current, inQuotes, values) ==
    IF i > Len(line) THEN Append(values, current)
    ELSE IF line[i] = "\""
         THEN IF inQuotes /\ i + 1 <= Len(line) /\ line[i + 1] = "\""
              THEN ParseLineFrom(line, i + 2, Append(current, "\""), inQuotes, values)
              ELSE ParseLineFrom(line, i + 1, current, ~inQuotes, values)
    ELSE IF line[i] = "," /\ ~inQuotes
         THEN ParseLineFrom(line, i + 1, <<>>, inQuotes, Append(values, current))
    ELSE ParseLineFrom(line, i + 1, Append(current, line[i]), inQuotes, values)

\* csvExporter.ts parseCSVLine
parseCSVLine(line) == ParseLineFrom(line, 1, <<>>, FALSE, <<>>)

\* String.prototype.endsWith for an ending that is one token
EndsWith(name, ending) == name # <<>> /\ name[Len(name)] = ending

\* files.find(file => file.endsWith('_data.csv')): its index, 0 for none
FindDataCsv(files) ==
    IF \E i \in 1..Len(files) : EndsWith(files[i].name, "_data.csv")
    THEN CHOOSE i \in 1..Len(files) :
             /\ EndsWith(files[i].name, "_data.csv")
             /\ \A j \in 1..(i - 1) : ~EndsWith(files[j].name, "_data.csv")
    ELSE 0

\* lines 155-162: the row object of a line, keyed by the keys of the first
\* row collected so far
RowOfLine(line, allData) ==
    LET values == parseCSVLine(line)
        headers == IF allData = <<>> THEN <<>> ELSE ObjectKeys(allData[1])
    IN  [i \in 1..Len(headers) |->
            <<headers[i],
              Str(IF i <= Len(values) THEN values[i] ELSE <<>>)>>]

RECURSIVE AddLines(_, _)
\* the loop over dataLines, blank lines skipped
AddLines(dataLines, allData) ==
    IF dataLines = <<>> THEN allData
    ELSE AddLines(Tail(dataLines),
                  IF Trim(Head(dataLines)) # <<>>
                  THEN Append(allData, RowOfLine(Head(dataLines), allData))
                  ELSE allData)

RECURSIVE CollectRows(_, _)
\* the loop over the entries of profilesDir
CollectRows(entries, allData) ==
    IF entries = <<>> THEN allData
    ELSE LET entry == Head(entries)
             found == IF entry.isDirectory THEN FindDataCsv(entry.files) ELSE 0
         IN  IF found = 0 THEN CollectRows(Tail(entries), allData)
             ELSE LET lines == SplitOn(Trim(entry.files[found].content), "\n")
                      dataLines == IF Len(allData) = 0 THEN lines ELSE Tail(lines)
                  IN  CollectRows(Tail(entries), AddLines(dataLines, allData))

\* lines 125-171 up to the write
MasterCSVContent(entries) == createCSVContent(CollectRows(entries, <<>>))

MasterProfiles(u) ==
    {[id |-> <<"17">>, name |-> <<"Ada">>, username |-> <<u>>,
      description |-> d, profileImageUrl |-> <<"https://pbs.example/a.jpg">>,
      profileBannerUrl |-> <<>>, verified |-> v, followersCount |-> f,
      followingCount |-> 10, tweetCount |-> 42, listedCount |-> 0,
      likeCount |-> 7, mediaCount |-> 0, subscribesToYou |-> FALSE,
      subscriptionType |-> <<>>] :
        d \in {<<"a">>, <<"a", ",", "a">>}, v \in BOOLEAN, f \in {0, 1500}}

\* what profilesDir can hold for a user: nothing, a directory without a
\* record, a directory with the record exportProfileData wrote
UserEntries(u) ==
    {<<>>, <<[name |-> <<u>>, isDirectory |-> TRUE, files |-> <<>>]>>}
        \cup {<<[name |-> <<u>>, isDirectory |-> TRUE,
                 files |-> <<[name |-> <<u, "_data.csv">>,
                              content |-> createCSVContent(<<toCSVRow(p)>>)]>>]>> :
                 p \in MasterProfiles(u)}

\* the master file of an earlier run, a plain file of profilesDir
EarlierMasterFile ==
    [name |-> <<"all_profiles", ".csv">>, isDirectory |-> FALSE, files |-> <<>>]

InitMaster ==
    /\ IdleFormat
    /\ IdleWrap
    /\ IdleGenerateCard
    /\ disk = [csv |-> [u \in Usernames |-> NoFile], images |-> {}]
    /\ sProfile = NoProfile
    /\ cliUsername = ""
    /\ loaded = NotLoaded
    /\ cli = "idle"
    /\ download = NotCalled
    /\ \E a \in UserEntries("ada"), b \in UserEntries("bob"),
          m \in {<<>>, <<EarlierMasterFile>>} :
          master = [status |-> "called", entries |-> a \o m \o b, content |-> <<>>]
    /\ parse = NotCalled
    /\ cards = NotCalled
    /\ cleanup = NotCalled
    /\ batch = NotCalled

\* csvExporter.ts createMasterCSV: the file written, or the error of a file
\* system call rethrown
CreateMasterCSV ==
    /\ master.status = "called"
    /\ \/ master' = [master EXCEPT !.status = "written",
                                   !.content = MasterCSVContent(master.entries)]
       \/ master' = [master EXCEPT !.status = "thrown"]
    /\ UNCHANGED <<fmtVars, wrapVars, storeVars, cli, assets, options, outputPathArg,
                   now, pc, opts, canvas, ops, outputPath, buffer, fsDirs, fsFiles,
                   fsDirs0, run, prev, result, download, parse, cards, cleanup,
                   batch>>

NextMaster == CreateMasterCSV

SpecMaster == InitMaster /\ [][NextMaster]_vars

-----------------------------------------------------------------------------
(* TwitterUrlParser.extractUsername.  The input is a sequence of            *)
(* characters; a pattern is matched by the set of remainders it can leave.  *)

\* the literals of the patterns, character by character
Chars_status ==
    <<"/", "s", "t", "a", "t", "u", "s">>

Chars_with_replies ==
    <<"/", "w", "i", "t", "h", "_", "r", "e", "p", "l", "i", "e", "s">>

Chars_media ==
    <<"/", "m", "e", "d", "i", "a">>

Chars_likes ==
    <<"/", "l", "i", "k", "e", "s">>

Chars_lists ==
    <<"/", "l", "i", "s", "t", "s">>

Chars_moments ==
    <<"/", "m", "o", "m", "e", "n", "t", "s">>

Chars_http ==
    <<"h", "t", "t", "p">>

Chars_www ==
    <<"w", "w", "w", ".">>

Chars_twitter ==
    <<"t", "w", "i", "t", "t", "e", "r", ".", "c", "o", "m">>

Chars_x ==
    <<"x", ".", "c", "o", "m">>

Chars_mobile ==
    <<"m", "o", "b", "i", "l", "e", ".", "t", "w", "i", "t", "t", "e", "r", ".", "c", "o", "m">>

LowerCaseLetters ==
    {"a", "b", "c", "d", "e", "f", "g", "h", "i", "j", "k", "l",
     "m", "n", "o", "p", "q", "r", "s", "t", "u", "v", "w", "x", "y", "z"}

UpperCaseLetters ==
    {"A", "B", "C", "D", "E", "F", "G", "H", "I", "J", "K", "L",
     "M", "N", "O", "P", "Q", "R", "S", "T", "U", "V", "W", "X", "Y", "Z"}

\* the class [a-zA-Z0-9_]
WordChars ==
    LowerCaseLetters \cup UpperCaseLetters \cup {DigitChar(d) : d \in 0..9} \cup {"_"}

StartsWith(s, prefix) ==
    Len(prefix) <= Len(s) /\ SubSeq(s, 1, Len(prefix)) = prefix

Drop(s, n) == SubSeq(s, n + 1, Len(s))

\* the remainders after a literal
After(remainders, literal) ==
    {Drop(s, Len(literal)) : s \in {r \in remainders : StartsWith(r, literal)}}

\* the remainders after an optional literal
AfterOptional(remainders, literal) == remainders \cup After(remainders, literal)

\* the length of the longest prefix of word characters
RECURSIVE WordRun(_)
WordRun(s) ==
    IF s # <<>> /\ Head(s) \in WordChars THEN 1 + WordRun(Tail(s)) ELSE 0

\* the pattern endings after the user name group
Endings ==
    [slash |-> <<>>, status |-> Chars_status, with_replies |-> Chars_with_replies,
     media |-> Chars_media, likes |-> Chars_likes, lists |-> Chars_lists,
     moments |-> Chars_moments]

\* does the rest of the input match the ending of the pattern, up to $
MatchesEnding(rest, ending) ==
    IF ending = "status"
    THEN /\ StartsWith(rest, Endings.status \o <<"/">>)
         /\ \A i \in 1..Len(rest) : rest[i] # "\n"
    ELSE \/ rest = Endings[ending]
         \/ rest = Endings[ending] \o <<"/">>

NoMatch == [matched |-> FALSE, username |-> <<>>]

\* ([a-zA-Z0-9_]+) followed by the ending: the group takes the whole run of
\* word characters, a shorter one leaves a word character before the ending
MatchUserName(remainders, ending) ==
    LET fits == {r \in remainders :
                    WordRun(r) >= 1 /\ MatchesEnding(Drop(r, WordRun(r)), ending)}
    IN  IF fits = {} THEN NoMatch
        ELSE LET r == CHOOSE f \in fits : TRUE
             IN  [matched |-> TRUE, username |-> SubSeq(r, 1, WordRun(r))]

\* the patterns /^https?:\/\/(www\.)?<host>\/([a-zA-Z0-9_]+)<ending>$/
MatchUrlPattern(p, s) ==
    LET scheme == After(After(AfterOptional(After({s}, Chars_http), <<"s">>),
                              <<":">>), <<"/", "/">>)
        www == IF p.www THEN AfterOptional(scheme, Chars_www) ELSE scheme
        host == After(After(www, p.host), <<"/">>)
    IN  MatchUserName(host, p.ending)

\* the pattern /^@?([a-zA-Z0-9_]+)$/
MatchBarePattern(s) ==
    LET rest == AfterOptional({s}, <<"@">>)
        fits == {r \in rest : r # <<>> /\ WordRun(r) = Len(r)}
    IN  IF fits = {} THEN NoMatch
        ELSE [matched |-> TRUE, username |-> CHOOSE f \in fits : TRUE]

UrlPattern(www, host, ending) ==
    [kind |-> "url", www |-> www, host |-> host, ending |-> ending]

\* urlParser.ts lines 6-31, in order
TWITTER_URL_PATTERNS ==
    [i \in 1..7 |->
        UrlPattern(TRUE, Chars_twitter,
                   <<"slash", "status", "with_replies", "media", "likes", "lists",
                     "moments">>[i])]
    \o [i \in 1..7 |->
        UrlPattern(TRUE, Chars_x,
                   <<"slash", "status", "with_replies", "media", "likes", "lists",
                     "moments">>[i])]
    \o <<UrlPattern(FALSE, Chars_mobile, "slash"),
         UrlPattern(FALSE, Chars_mobile, "status"),
         [kind |-> "bare", www |-> FALSE, host |-> <<>>, ending |-> "slash"]>>

\* cleanUrl.match(pattern), the last capture group
MatchPattern(p, s) ==
    IF p.kind = "bare" THEN MatchBarePattern(s) ELSE MatchUrlPattern(p, s)

\* isValidUsername without the rule on the first character
isValidUsernameAnyStart(username) ==
    /\ Len(username) > 0
    /\ Len(username) <= 15
    /\ \A i \in 1..Len(username) : username[i] \in WordChars

\* urlParser.ts isValidUsername
isValidUsername(username) ==
    /\ Len(username) > 0
    /\ Len(username) <= 15
    /\ \A i \in 1..Len(username) : username[i] \in WordChars
    /\ Head(username) \notin {DigitChar(d) : d \in 0..9}

UrlThrown(message) == [thrown |-> TRUE, message |-> message, username |-> <<>>]

RECURSIVE TryPatterns(_, _, _)
\* the loop over the patterns, then the throw
TryPatterns(patterns, cleanUrl, url) ==
    IF patterns = <<>>
    THEN UrlThrown("Invalid Twitter URL: Could not extract username")
    ELSE LET match == MatchPattern(Head(patterns), cleanUrl)
         IN  IF match.matched /\ isValidUsername(match.username)
             THEN [thrown |-> FALSE, message |-> "", username |-> match.username]
             ELSE TryPatterns(Tail(patterns), cleanUrl, url)

\* urlParser.ts extractUsername(url) for a string url
extractUsername(url) ==
    IF url = <<>>
    THEN UrlThrown("Invalid URL: URL must be a non-empty string")
    ELSE TryPatterns(TWITTER_URL_PATTERNS, Trim(url), url)

MaxNameLen == 2

NameAlphabet == {"a", "Z", "7", "_"}

RECURSIVE Repeat(_, _)
Repeat(ch, n) == IF n = 0 THEN <<>> ELSE <<ch>> \o Repeat(ch, n - 1)

\* the names put into the inputs: every name over the alphabet up to the bound,
\* names at and over the length limit, and names with a foreign character
Names ==
    UNION {[1..n -> NameAlphabet] : n \in 0..MaxNameLen}
    \cup {Repeat("a", 15), Repeat("a", 16), <<"7">> \o Repeat("a", 14),
          <<"a", "-">>, <<"a", ".", "b">>}

Chars_https == Chars_http \o <<"s", ":", "/", "/">>

\* the input forms of the README and of runExample, and forms outside them
UrlForm(form, u) ==
    CASE form = "twitter" -> Chars_https \o Chars_twitter \o <<"/">> \o u
      [] form = "x" -> Chars_https \o Chars_x \o <<"/">> \o u
      [] form = "status" ->
            Chars_https \o Chars_twitter \o <<"/">> \o u \o Chars_status
            \o <<"/", "1", "2">>
      [] form = "with_replies" ->
            Chars_https \o Chars_twitter \o <<"/">> \o u \o Chars_with_replies
      [] form = "at" -> <<"@">> \o u
      [] form = "bare" -> u
      [] form = "www" ->
            Chars_http \o <<":", "/", "/">> \o Chars_www \o Chars_x \o <<"/">>
            \o u \o <<"/">>
      [] form = "mobile" -> Chars_https \o Chars_mobile \o <<"/">> \o u
      [] form = "padded" -> <<" ">> \o u \o <<" ", "\n">>
      [] form = "followers" ->
            Chars_https \o Chars_twitter \o <<"/">> \o u
            \o <<"/", "f", "o", "l", "l", "o", "w", "e", "r", "s">>
      [] form = "query" ->
            Chars_https \o Chars_twitter \o <<"/">> \o u \o <<"?", "s", "=", "2">>
      [] form = "other_host" ->
            Chars_https \o <<"t", ".", "c", "o">> \o <<"/">> \o u

UrlForms ==
    {"twitter", "x", "status", "with_replies", "at", "bare", "www", "mobile",
     "padded", "followers", "query", "other_host"}

InitUrl ==
    /\ IdleFormat
    /\ IdleWrap
    /\ IdleGenerateCard
    /\ disk = [csv |-> [u \in Usernames |-> NoFile], images |-> {}]
    /\ sProfile = NoProfile
    /\ cliUsername = ""
    /\ loaded = NotLoaded
    /\ cli = "idle"
    /\ download = NotCalled
    /\ master = NotCalled
    /\ \E form \in UrlForms, u \in Names :
          parse = [status |-> "called", form |-> form, u |-> u,
                   url |-> UrlForm(form, u), outcome |-> UrlThrown("")]
    /\ cards = NotCalled
    /\ cleanup = NotCalled
    /\ batch = NotCalled

ExtractUsername ==
    /\ parse.status = "called"
    /\ parse' = [parse EXCEPT !.status = "done",
                              !.outcome = extractUsername(parse.url)]
    /\ UNCHANGED <<fmtVars, wrapVars, storeVars, cli, assets, options, outputPathArg,
                   now, pc, opts, canvas, ops, outputPath, buffer, fsDirs, fsFiles,
                   fsDirs0, run, prev, result, download, master, cards, cleanup,
                   batch>>

NextUrl == ExtractUsername

SpecUrl == InitUrl /\ [][NextUrl]_vars

-----------------------------------------------------------------------------
(* The generate-cards command: one card for every user directory            *)

\* the record of a processed user
UserProfile(u) ==
    [id |-> <<"17">>, name |-> <<u>>, username |-> <<u>>,
     description |-> <<"a">>, profileImageUrl |-> <<"https://pbs.example/a.jpg">>,
     profileBannerUrl |-> <<>>, verified |-> FALSE, followersCount |-> 1500,
     followingCount |-> 10, tweetCount |-> 42, listedCount |-> 0,
     likeCount |-> 7, mediaCount |-> 0, subscribesToYou |-> FALSE,
     subscriptionType |-> <<>>]

\* what fs.readdir lists: the user directories, in some order
Listings == {<<>>, <<"ada">>, <<"bob">>, <<"ada", "bob">>, <<"bob", "ada">>}

\* the downloads directory: a user directory holds a record or not, and ada's
\* may hold an avatar
InitCards ==
    /\ IdleFormat
    /\ IdleWrap
    /\ IdleGenerateCard
    /\ \E withRecord \in SUBSET Usernames,
          imgs \in SUBSET {ImageFile("ada", "profile_image.jpg")} :
          disk = [csv |-> [u \in Usernames |->
                             IF u \in withRecord
                             THEN File(createCSVContent(<<toCSVRow(UserProfile(u))>>))
                             ELSE NoFile],
                  images |-> imgs]
    /\ sProfile = NoProfile
    /\ cliUsername = ""
    /\ loaded = NotLoaded
    /\ cli = "idle"
    /\ download = NotCalled
    /\ master = NotCalled
    /\ parse = NotCalled
    /\ \E listing \in Listings :
          cards = [status |-> "called", listing |-> listing, users |-> <<>>, i |-> 0,
                   successCount |-> 0, failCount |-> 0, processed |-> <<>>]
    /\ cleanup = NotCalled
    /\ batch = NotCalled

CardsUnchanged ==
    UNCHANGED <<fmtVars, wrapVars, disk, sProfile, cliUsername, cli, outputPathArg,
                fsDirs, fsFiles, run, prev, download, master, parse, cleanup, batch>>

\* cli.ts lines 366-372 with types.ts getAllUserDirectories: the directories
\* listed, or none when the listing fails; no user ends the command
CardsList ==
    /\ cards.status = "called"
    /\ \E users \in {cards.listing, <<>>} :
          cards' = [cards EXCEPT !.users = users,
                                 !.status = IF users = <<>> THEN "returned" ELSE "loop"]
    /\ UNCHANGED <<loaded, assets, options, now, pc, opts, canvas, ops, outputPath,
                   buffer, fsDirs0, result>>
    /\ CardsUnchanged

\* the entry of the log for the user at index i
Processed(username, outcome) == [username |-> username, outcome |-> outcome]

\* lines 380-388 where an exception of loadAssetsFromDirectory is not counted
CardsLoadAssetsUncounted ==
    /\ cards.status = "loop"
    /\ cards.i < Len(cards.users)
    /\ LET username == cards.users[cards.i + 1]
       IN  /\ loaded' = loadAssetsFromDirectory(username, disk)
           /\ cards' = IF loaded'.status = "thrown"
                       THEN [cards EXCEPT
                               !.i = @ + 1,
                               !.processed = Append(@, Processed(username, "thrown"))]
                       ELSE [cards EXCEPT !.status = "loaded"]
    /\ UNCHANGED <<assets, options, now, pc, opts, canvas, ops, outputPath, buffer,
                   fsDirs0, result>>
    /\ CardsUnchanged

\* lines 380-388 and 417-420: the assets of users[i] are loaded; an exception
\* is caught in the loop and counted as a failure
CardsLoadAssets ==
    /\ cards.status = "loop"
    /\ cards.i < Len(cards.users)
    /\ LET username == cards.users[cards.i + 1]
       IN  /\ loaded' = loadAssetsFromDirectory(username, disk)
           /\ cards' = IF loaded'.status = "thrown"
                       THEN [cards EXCEPT
                               !.failCount = @ + 1,
                               !.i = @ + 1,
                               !.processed = Append(@, Processed(username, "thrown"))]
                       ELSE [cards EXCEPT !.status = "loaded"]
    /\ UNCHANGED <<assets, options, now, pc, opts, canvas, ops, outputPath, buffer,
                   fsDirs0, result>>
    /\ CardsUnchanged

\* lines 390-405: generateCard(assets, cardOptions) is called for users[i]
CardsGenerateCard ==
    /\ cards.status = "loaded"
    /\ cards' = [cards EXCEPT !.status = "generating"]
    /\ assets' = [profileData |-> loaded.profileData,
                  profileImagePath |-> loaded.profileImagePath,
                  bannerImagePath |-> loaded.bannerImagePath]
    /\ options' = CliCardOptions
    /\ now' \in Times
    /\ pc' = "start"
    /\ opts' = defaultOptions
    /\ canvas' = NoCanvas
    /\ ops' = <<>>
    /\ outputPath' = NoPath
    /\ buffer' = NoBuffer
    /\ fsDirs0' = fsDirs
    /\ result' = NoResult
    /\ UNCHANGED loaded
    /\ CardsUnchanged

\* lines 407-415: the result is counted and the loop goes to the next user
CardsCount ==
    /\ cards.status = "generating"
    /\ pc = "done"
    /\ LET username == cards.users[cards.i + 1]
       IN  cards' = IF result.success
                    THEN [cards EXCEPT
                            !.status = "loop",
                            !.successCount = @ + 1,
                            !.i = @ + 1,
                            !.processed = Append(@, Processed(username, "success"))]
                    ELSE [cards EXCEPT
                            !.status = "loop",
                            !.failCount = @ + 1,
                            !.i = @ + 1,
                            !.processed = Append(@, Processed(username, "failed"))]
    /\ UNCHANGED <<loaded, assets, options, now, pc, opts, canvas, ops, outputPath,
                   buffer, fsDirs0, result>>
    /\ CardsUnchanged

\* lines 380 and 423-427: the loop ends and the counts are printed
CardsSummary ==
    /\ cards.status = "loop"
    /\ cards.i >= Len(cards.users)
    /\ cards' = [cards EXCEPT !.status = "completed"]
    /\ UNCHANGED <<loaded, assets, options, now, pc, opts, canvas, ops, outputPath,
                   buffer, fsDirs0, result>>
    /\ CardsUnchanged

NextCards ==
    \/ CardsList
    \/ CardsLoadAssets
    \/ CardsGenerateCard
    \/ CreateCanvas
    \/ DrawBackground
    \/ DrawBanner
    \/ DrawProfileImage
    \/ DrawProfileInfo
    \/ DrawStats
    \/ DrawDescription
    \/ ResolveOutputPath
    \/ EnsureDir
    \/ Encode
    \/ WriteFile
    \/ Stat
    \/ CardsCount
    \/ CardsSummary

SpecCards == InitCards /\ [][NextCards]_vars

-----------------------------------------------------------------------------
(* FolderManager.cleanupUserDirectory.  A file name is a sequence of tokens *)
(* and a keep pattern is one token.                                         *)

keepPatterns == <<"_data.csv", "profile_image", "banner_image">>

\* item.includes(pattern)
NameIncludes(item, pattern) == \E k \in 1..Len(item) : item[k] = pattern

\* keepPatterns.some(pattern => item.includes(pattern))
shouldKeep(item) ==
    \E k \in 1..Len(keepPatterns) : NameIncludes(item, keepPatterns[k])

Entry(name, isFile, size) == [name |-> name, isFile |-> isFile, size |-> size]

\* what a user directory may hold, in the order readdir lists it
DirectoryPool ==
    <<Entry(<<"ada", "_data.csv">>, TRUE, 2),
      Entry(<<"ada_card_", ".png">>, TRUE, 5),
      Entry(<<"cards">>, FALSE, 0),
      Entry(<<"notes", ".txt">>, TRUE, 7),
      Entry(<<"old_", "profile_image", ".jpg">>, TRUE, 3),
      Entry(<<"profile_image", ".jpg">>, TRUE, 3)>>

\* the entries of the pool at the chosen indexes, in order
RECURSIVE PickEntries(_, _)
PickEntries(k, chosen) ==
    IF k > Len(DirectoryPool) THEN <<>>
    ELSE (IF k \in chosen THEN <<DirectoryPool[k]>> ELSE <<>>)
         \o PickEntries(k + 1, chosen)

NewCleanupResult == [filesRemoved |-> 0, spaceFreed |-> 0, errors |-> <<>>]

InitCleanup ==
    /\ IdleFormat
    /\ IdleWrap
    /\ IdleGenerateCard
    /\ disk = [csv |-> [u \in Usernames |-> NoFile], images |-> {}]
    /\ sProfile = NoProfile
    /\ cliUsername = ""
    /\ loaded = NotLoaded
    /\ cli = "idle"
    /\ download = NotCalled
    /\ master = NotCalled
    /\ parse = NotCalled
    /\ cards = NotCalled
    /\ \E chosen \in SUBSET (1..Len(DirectoryPool)) :
          cleanup = [status |-> "called", before |-> PickEntries(1, chosen),
                     dir |-> {DirectoryPool[k] : k \in chosen}, items |-> <<>>,
                     i |-> 0, result |-> NewCleanupResult]
    /\ batch = NotCalled

CleanupUnchanged ==
    UNCHANGED <<fmtVars, wrapVars, storeVars, cli, assets, options, outputPathArg,
                now, pc, opts, canvas, ops, outputPath, buffer, fsDirs, fsFiles,
                fsDirs0, run, prev, result, download, master, parse, cards, batch>>

\* lines 381-383: the catch around the loop
CleanupCaught(c) ==
    [c EXCEPT !.status = "returned",
              !.result.errors = Append(@, "Failed to cleanup directory")]

\* line 363: readdir lists the directory or rejects
CleanupReaddir ==
    /\ cleanup.status = "called"
    /\ \/ cleanup' = [cleanup EXCEPT !.status = "loop", !.items = cleanup.before]
       \/ cleanup' = CleanupCaught(cleanup)
    /\ CleanupUnchanged

\* lines 372-378: the size is added, then the file is removed and counted, or
\* fs.remove rejects and the message is recorded
CleanupRemove(c, item) ==
    {[c EXCEPT !.i = @ + 1,
               !.dir = @ \ {item},
               !.result.spaceFreed = @ + item.size,
               !.result.filesRemoved = @ + 1],
     [c EXCEPT !.i = @ + 1,
               !.result.spaceFreed = @ + item.size,
               !.result.errors = Append(@, "Failed to remove")]}

\* lines 365-380: one turn of the loop; stat may reject
CleanupItem ==
    /\ cleanup.status = "loop"
    /\ cleanup.i < Len(cleanup.items)
    /\ LET item == cleanup.items[cleanup.i + 1]
       IN  \/ cleanup' = CleanupCaught(cleanup)
           \/ /\ ~(item.isFile /\ ~shouldKeep(item.name))
              /\ cleanup' = [cleanup EXCEPT !.i = @ + 1]
           \/ /\ item.isFile
              /\ ~shouldKeep(item.name)
              /\ cleanup' \in CleanupRemove(cleanup, item)
    /\ CleanupUnchanged

\* line 385: the loop is over
CleanupReturn ==
    /\ cleanup.status = "loop"
    /\ cleanup.i >= Len(cleanup.items)
    /\ cleanup' = [cleanup EXCEPT !.status = "returned"]
    /\ CleanupUnchanged

NextCleanup ==
    \/ CleanupReaddir
    \/ CleanupItem
    \/ CleanupReturn

SpecCleanup == InitCleanup /\ [][NextCleanup]_vars

-----------------------------------------------------------------------------
(* The batch command, which runs the process command for every URL of a     *)
(* file.  The file is a sequence of characters.                             *)

MaxBatchLines == 2

\* the characters of the user names
UserChars == [ada |-> <<"a", "d", "a">>, bob |-> <<"b", "o", "b">>]

\* lines of a URL file: two profiles, an input without a user name, a padded
\* line, a comment and an empty line
BatchLines ==
    {UrlForm("twitter", UserChars.ada),
     UrlForm("at", UserChars.bob),
     UrlForm("bare", <<"7">>),
     <<" ">> \o UrlForm("x", UserChars.bob) \o <<" ">>,
     <<"#", "x">>,
     <<>>}

RECURSIVE JoinLines(_)
JoinLines(lines) ==
    IF lines = <<>> THEN <<>>
    ELSE IF Len(lines) = 1 THEN Head(lines)
    ELSE Head(lines) \o <<"\n">> \o JoinLines(Tail(lines))

UrlFiles ==
    {JoinLines(lines) : lines \in UNION {[1..n -> BatchLines] : n \in 0..MaxBatchLines}}

RECURSIVE TrimmedUrls(_)
\* lines 141-142: .map(line => line.trim()).filter(line => line &&
\* !line.startsWith('#'))
TrimmedUrls(lines) ==
    IF lines = <<>> THEN <<>>
    ELSE LET line == Trim(Head(lines))
         IN  (IF line # <<>> /\ Head(line) # "#" THEN <<line>> ELSE <<>>)
             \o TrimmedUrls(Tail(lines))

\* lines 138-142
UrlsOfFile(file) == TrimmedUrls(SplitOn(file, "\n"))

InitBatch ==
    /\ IdleFormat
    /\ IdleWrap
    /\ IdleGenerateCard
    /\ disk = [csv |-> [u \in Usernames |-> NoFile], images |-> {}]
    /\ sProfile = NoProfile
    /\ cliUsername = ""
    /\ loaded = NotLoaded
    /\ cli = "idle"
    /\ download = NotCalled
    /\ master = NotCalled
    /\ parse = NotCalled
    /\ cards = NotCalled
    /\ cleanup = NotCalled
    /\ \E file \in UrlFiles, token \in BOOLEAN :
          batch = [status |-> "called", file |-> file, token |-> token,
                   urls |-> <<>>, i |-> 0, attempts |-> <<>>, delays |-> <<>>]

BatchUnchanged ==
    UNCHANGED <<fmtVars, wrapVars, sProfile, cliUsername, loaded, cli, assets, options,
                outputPathArg, now, pc, opts, canvas, ops, outputPath, buffer, fsDirs,
                fsFiles, fsDirs0, run, prev, result, download, master, parse, cards,
                cleanup>>

\* lines 137-144 and 164-167: the file is read and split, or readFile rejects
\* and the catch of the action exits with code 1
BatchReadFile ==
    /\ batch.status = "called"
    /\ \/ batch' = [batch EXCEPT !.status = "loop", !.urls = UrlsOfFile(batch.file)]
       \/ batch' = [batch EXCEPT !.status = "exit1"]
    /\ UNCHANGED disk
    /\ BatchUnchanged

\* the user a valid URL names
UserOf(username) == CHOOSE u \in Usernames : UserChars[u] = username

\* cli.ts lines 35-113, the process action run for url: the exits with code 1
\* of its token check and of its catch, or the directory it leaves
ProcessAction(url, token, d) ==
    IF ~token THEN {[exit |-> TRUE, disk |-> d]}
    ELSE LET extracted == extractUsername(url)
         IN  IF extracted.thrown THEN {[exit |-> TRUE, disk |-> d]}
             ELSE LET u == UserOf(extracted.username)
                      written == File(createCSVContent(<<toCSVRow(UserProfile(u))>>))
                  IN  \* getUserByUsername or createUserDirectory rejects
                      {[exit |-> TRUE, disk |-> d]}
                      \cup
                      \* the assets downloaded or not, then the export rejects
                      \* or writes the record
                      {[exit |-> x,
                        disk |-> [csv |-> IF x THEN d.csv
                                          ELSE [d.csv EXCEPT ![u] = written],
                                  images |-> d.images \cup imgs]] :
                         x \in BOOLEAN,
                         imgs \in SUBSET {ImageFile(u, "profile_image.jpg")}}

\* lines 146-157: program.parseAsync(args) for urls[i].  The arguments carry
\* every option of batch, --delay included, which process does not declare:
\* commander exits with code 1 for them or runs the process action
BatchProcess ==
    /\ batch.status = "loop"
    /\ batch.i < Len(batch.urls)
    /\ LET url == batch.urls[batch.i + 1]
       IN  \E outcome \in {[exit |-> TRUE, disk |-> disk]}
                          \cup ProcessAction(url, batch.token, disk) :
              /\ disk' = outcome.disk
              /\ batch' = [batch EXCEPT
                             !.attempts = Append(@, url),
                             !.status = IF outcome.exit THEN "exit1" ELSE "processed"]
    /\ BatchUnchanged

\* lines 159-162: the delay, unless the URL was the last one
BatchDelay ==
    /\ batch.status = "processed"
    /\ batch' = [batch EXCEPT
                   !.status = "loop",
                   !.i = @ + 1,
                   !.delays = IF batch.i < Len(batch.urls) - 1
                              THEN Append(@, batch.i) ELSE @]
    /\ UNCHANGED disk
    /\ BatchUnchanged

\* line 165: the loop is over
BatchCompleted ==
    /\ batch.status = "loop"
    /\ batch.i >= Len(batch.urls)
    /\ batch' = [batch EXCEPT !.status = "completed"]
    /\ UNCHANGED disk
    /\ BatchUnchanged

NextBatch ==
    \/ BatchReadFile
    \/ BatchProcess
    \/ BatchDelay
    \/ BatchCompleted

SpecBatch == InitBatch /\ [][NextBatch]_vars

-----------------------------------------------------------------------------
(* Reading a formatted count back, independently of NatToString *)

IsDigit(ch) == ch \in {Digits[i] : i \in 1..10}

DigitValue(ch) == (CHOOSE i \in 1..10 : Digits[i] = ch) - 1

RECURSIVE DecimalValue(_)
DecimalValue(str) ==
    IF str = <<>> THEN 0
    ELSE 10 * DecimalValue(SubSeq(str, 1, Len(str) - 1)) + DigitValue(str[Len(str)])

\* a decimal integer without sign, without leading zeros
IsPlainInteger(str) ==
    /\ Len(str) >= 1
    /\ \A i \in 1..Len(str) : IsDigit(str[i])
    /\ Len(str) > 1 => str[1] # "0"

\* <integer> "." <one digit> <suffix>
IsOneDecimalWith(str, suffix) ==
    /\ Len(str) >= 4
    /\ str[Len(str)] = suffix
    /\ IsDigit(str[Len(str) - 1])
    /\ str[Len(str) - 2] = "."
    /\ IsPlainInteger(SubSeq(str, 1, Len(str) - 3))

\* the value of such a string in tenths
TenthsOf(str) ==
    10 * DecimalValue(SubSeq(str, 1, Len(str) - 3)) + DigitValue(str[Len(str) - 1])

Distance(a, b) == IF a >= b THEN a - b ELSE b - a

FormattedInput == fProfile[fResult.getter]

\* C1: every getter returns the plain integer below 1000, count/1000 to one
\* decimal place (the nearest tenth) followed by K from 1000 up to 999999,
\* and count/1000000 to one decimal place followed by M from 1000000 on;
\* 999 gives "999", 1000 "1.0K", 1200 "1.2K", 2500000 "2.5M".
C1_FormatNumber ==
    fpc = "done" =>
        LET c == FormattedInput
            t == fResult.text
        IN  /\ c < 1000 => IsPlainInteger(t) /\ DecimalValue(t) = c
            /\ (c >= 1000 /\ c < 1000000) =>
                  /\ IsOneDecimalWith(t, "K")
                  /\ Distance(c, 100 * TenthsOf(t)) <= 50
            /\ c >= 1000000 =>
                  /\ IsOneDecimalWith(t, "M")
                  /\ Distance(c, 100000 * TenthsOf(t)) <= 50000
            /\ c = 999 => t = <<"9", "9", "9">>
            /\ c = 1000 => t = <<"1", ".", "0", "K">>
            /\ c = 1200 => t = <<"1", ".", "2", "K">>
            /\ c = 2500000 => t = <<"2", ".", "5", "M">>

C1_Witness ==
    /\ fpc = "done"
    /\ fResult.getter = "tweetCount"
    /\ fProfile.tweetCount = 999950
    /\ fResult.text = <<"1", "0", "0", "0", ".", "0", "K">>

-----------------------------------------------------------------------------
(* Claims about generateCard *)

\* the value an option takes: the caller's when set, else the default
Effective(key) == IF key \in DOMAIN options THEN options[key] ELSE defaultOptions[key]

IsSuccessResult(r) ==
    /\ DOMAIN r = {"success", "outputPath", "cardInfo"}
    /\ r.success = TRUE
    /\ r.outputPath # NoPath
    /\ DOMAIN r.cardInfo = {"width", "height", "fileSize", "format"}

IsFailureResult(r) ==
    /\ DOMAIN r = {"success", "error"}
    /\ r.success = FALSE
    /\ r.error # ""

Returned == pc = "done"

Succeeded == Returned /\ IsSuccessResult(result)

Failed == Returned /\ ~IsSuccessResult(result)

OpsOf(elem) == SelectSeq(ops, LAMBDA o : o.elem = elem)

Called(opName) == \E i \in 1..Len(ops) : ops[i].op = opName

CallOk(opName) == \E i \in 1..Len(ops) : ops[i].op = opName /\ ops[i].ok

\* C2: generateCard never throws and never returns partial output: whatever
\* step fails, the call ends with a success result carrying outputPath and
\* cardInfo {width, height, fileSize, format}, or with a failure result
\* carrying success = false and an error message and no cardInfo; until it
\* ends there is no result.
C2_ResultShape ==
    /\ Returned => IsSuccessResult(result) \/ IsFailureResult(result)
    /\ ~Returned => result = NoResult

C2_Witness ==
    /\ Returned
    /\ IsFailureResult(result)
    /\ Called("stat")
    /\ fsFiles # {}

\* C3 (as claimed): whenever generateCard returns a failure result no file
\* has been written and no output directory has been newly created.
C3_NothingPersistedOnFailure ==
    Failed => fsFiles = {} /\ fsDirs = fsDirs0

\* C4: as soon as the canvas exists it has the width and height of the
\* effective style configuration and keeps them through every later step,
\* and a success result reports exactly those dimensions.
C4_Dimensions ==
    /\ canvas # NoCanvas =>
          /\ canvas.width = Effective("width")
          /\ canvas.height = Effective("height")
          /\ ops[1] = [op |-> "createCanvas", elem |-> "canvas",
                       w |-> Effective("width"), h |-> Effective("height")]
    /\ Succeeded =>
          /\ result.cardInfo.width = Effective("width")
          /\ result.cardInfo.height = Effective("height")
          /\ canvas.width = result.cardInfo.width
          /\ canvas.height = result.cardInfo.height

C4_Witness ==
    /\ Succeeded
    /\ "width" \in DOMAIN options
    /\ "height" \notin DOMAIN options
    /\ result.cardInfo.width = 124
    /\ result.cardInfo.height = 630


\* an element counts as drawn when a paint call was issued for it
PaintOps == {"fillRect", "drawImage", "fillText", "stroke"}

Drawn(elem) == \E i \in 1..Len(ops) : ops[i].elem = elem /\ ops[i].op \in PaintOps

Loadable(path) == path \in DOMAIN LoadableImages

\* every drawing step of the call is behind it
DrawingFinished ==
    \/ pc \in {"path", "ensureDir", "encode", "write", "stat"}
    \/ pc = "done" /\ Called("createCanvas")

\* exactly the elements that are enabled and available have been drawn
OnlyAffectedElementsOmitted ==
    /\ Drawn("background")
    /\ Drawn("banner") <=> Effective("showBanner") /\ Loadable(assets.bannerImagePath)
    /\ Drawn("avatar") <=> Loadable(assets.profileImagePath)
    /\ Drawn("identity")
    /\ Drawn("stats") <=> Effective("showStats")
    /\ Drawn("description") <=>
          Effective("showDescription") /\ assets.profileData.description # <<>>

InvalidDimensions ==
    \/ Effective("width") <= 0
    \/ Effective("height") <= 0
    \/ Effective("width") > MaxCanvasDim
    \/ Effective("height") > MaxCanvasDim

ElemRank(elem) ==
    CASE elem = "canvas" -> 0
      [] elem = "background" -> 1
      [] elem = "banner" -> 2
      [] elem = "avatar" -> 3
      [] elem = "identity" -> 4
      [] elem = "stats" -> 5
      [] elem = "description" -> 6
      [] elem = "file" -> 7

OpRank(opName) ==
    CASE opName = "loadImage" -> 0
      [] opName = "clip" -> 1
      [] opName = "drawImage" -> 2
      [] opName = "restore" -> 3
      [] opName \in {"fillRect", "stroke"} -> 4
      [] opName = "ensureDir" -> 5
      [] opName = "toBuffer" -> 6
      [] opName = "writeFile" -> 7
      [] opName = "stat" -> 8
      [] OTHER -> 0

\* C7: the calls of a run occur in the compositing order background, banner
\* (load, image, gradient overlay), avatar (load, clip, image, ring),
\* identity, stats, description and only then directory, encode, write, stat;
\* an image is drawn only after its own load succeeded.
C7_CompositingOrder ==
    /\ \A i \in 1..(Len(ops) - 1) :
          /\ ElemRank(ops[i].elem) <= ElemRank(ops[i + 1].elem)
          /\ ops[i].elem = ops[i + 1].elem => OpRank(ops[i].op) <= OpRank(ops[i + 1].op)
    /\ \A j \in 1..Len(ops) :
          ops[j].op = "drawImage" =>
              \E i \in 1..(j - 1) : /\ ops[i].op = "loadImage"
                                    /\ ops[i].elem = ops[j].elem
                                    /\ ops[i].ok
    /\ \A j \in 1..Len(ops) :
          ops[j].elem \notin {"canvas", "background"} =>
              ops[2].elem = "background"

C7_Witness ==
    /\ Succeeded
    /\ Drawn("banner")
    /\ Drawn("avatar")
    /\ Drawn("stats")
    /\ Drawn("description")
    /\ assets.profileData.verified

\* C8: with showBanner false no banner image is loaded or drawn and no
\* gradient band is painted, whatever banner file was resolved, and the
\* avatar, when drawn, is clipped, painted and ringed at y = 60.
C8_NoBannerWhenHidden ==
    ~Effective("showBanner") =>
        /\ OpsOf("banner") = <<>>
        /\ \A i \in 1..Len(ops) :
              ops[i].elem = "avatar" =>
                 /\ ops[i].op = "drawImage" => ops[i].y = 60
                 /\ ops[i].op \in {"clip", "stroke"} => ops[i].cy = 60 + 60

C8_Witness ==
    /\ Succeeded
    /\ ~Effective("showBanner")
    /\ Loadable(assets.bannerImagePath)
    /\ Drawn("avatar")
    /\ Effective("height") = 400

NoBitmaps == assets.profileImagePath = "" /\ assets.bannerImagePath = ""

FirstY(elem) == OpsOf(elem)[1].y

\* C9 (as claimed): with neither an avatar nor a banner bitmap present the
\* canvas has the requested dimensions and identity, stats and description
\* start at the non-banner offsets 200, 400 and 500.
C9_NonBannerOffsetsWithoutBitmaps ==
    (NoBitmaps /\ DrawingFinished) =>
        /\ canvas.width = Effective("width")
        /\ canvas.height = Effective("height")
        /\ FirstY("identity") = 200
        /\ Drawn("stats") => FirstY("stats") = 400
        /\ Drawn("description") => FirstY("description") = 500

\* C9 (amended): with neither bitmap present the canvas has the requested
\* dimensions; identity, stats and description start at 200, 400 and 500
\* when showBanner is false, and at floor(0.4 * height) + 20, + 200 and
\* + 300 when showBanner is true, although no banner is drawn.
C9_OffsetsFollowShowBanner ==
    (NoBitmaps /\ DrawingFinished) =>
        /\ canvas.width = Effective("width")
        /\ canvas.height = Effective("height")
        /\ ~Drawn("banner") /\ ~Drawn("avatar")
        /\ ~Effective("showBanner") =>
              /\ FirstY("identity") = 200
              /\ Drawn("stats") => FirstY("stats") = 400
              /\ Drawn("description") => FirstY("description") = 500
        /\ Effective("showBanner") =>
              /\ FirstY("identity") = (2 * Effective("height")) \div 5 + 20
              /\ Drawn("stats") => FirstY("stats") = (2 * Effective("height")) \div 5 + 200
              /\ Drawn("description") =>
                    FirstY("description") = (2 * Effective("height")) \div 5 + 300

C9_Witness ==
    /\ Succeeded
    /\ NoBitmaps
    /\ ~Effective("showBanner")
    /\ Drawn("stats")
    /\ Drawn("description")
    /\ FirstY("description") = 500

-----------------------------------------------------------------------------
(* Claims about the word wrap *)

LineBudget == wOptions.width - 120

\* number of words on an emitted line: each word is followed by one space
WordsOnLine(text) == Len(SelectSeq(text, LAMBDA ch : ch = " "))

\* C10 (as claimed): no emitted line, trailing space included, is wider
\* than canvas width - 120, single-word lines included.
C10_NoLineExceedsBudget ==
    \A i \in 1..Len(wOps) : measureText(wOps[i].text) <= LineBudget

\* C10 (amended): every emitted line of two or more words, trailing space
\* included, is at most canvas width - 120 wide; a wider line consists of a
\* single word.
C10_MultiWordLinesFit ==
    \A i \in 1..Len(wOps) :
        \/ measureText(wOps[i].text) <= LineBudget
        \/ WordsOnLine(wOps[i].text) = 1

C10_Witness ==
    /\ wpc = "done"
    /\ Len(wOps) = 2
    /\ WordsOnLine(wOps[1].text) = 2
    /\ measureText(wOps[1].text) = LineBudget
    /\ measureText(wOps[2].text) > LineBudget

RECURSIVE LineWords(_, _)
\* the words on an emitted line, read off character by character: a word
\* ends at each space
LineWords(text, word) ==
    IF text = <<>> THEN <<>>
    ELSE IF Head(text) = " " THEN <<word>> \o LineWords(Tail(text), <<>>)
    ELSE LineWords(Tail(text), Append(word, Head(text)))

RECURSIVE EmittedWords(_)
EmittedWords(drawn) ==
    IF drawn = <<>> THEN <<>>
    ELSE LineWords(Head(drawn).text, <<>>) \o EmittedWords(Tail(drawn))

RECURSIVE EmittedText(_)
EmittedText(drawn) ==
    IF drawn = <<>> THEN <<>> ELSE Head(drawn).text \o EmittedText(Tail(drawn))

\* C11: the words of the emitted lines, in emission order, are exactly the
\* space-separated words of the description: nothing dropped, split,
\* reordered or duplicated, the last line included; the lines put end to end
\* are the description followed by one space.
C11_WordsPreserved ==
    wpc = "done" =>
        /\ EmittedWords(wOps) = Split(wDescription)
        /\ EmittedText(wOps) = Append(wDescription, " ")
        /\ Len(wOps) >= 1

C11_Witness ==
    /\ wpc = "done"
    /\ wDescription = <<"W", " ", "i", " ", "W">>
    /\ Len(wOps) = 3
    /\ wOps[3].text = <<"W", " ">>

\* C12 (as claimed): a description wider than the line budget is emitted on
\* at least two lines.
C12_OverBudgetGivesTwoLines ==
    (wpc = "done" /\ measureText(wDescription) > LineBudget) => Len(wOps) >= 2

\* C12 (amended): a description wider than the line budget that holds two or
\* more space-separated words is emitted on at least two lines; a single
\* word wider than the budget is emitted on one line.
C12_OverBudgetWordsGiveTwoLines ==
    (wpc = "done" /\ measureText(wDescription) > LineBudget) =>
        /\ WordsOnLine(wDescription) >= 1 => Len(wOps) >= 2
        /\ WordsOnLine(wDescription) = 0 => Len(wOps) = 1

C12_Witness ==
    /\ wpc = "done"
    /\ wDescription = <<"i", " ", "i", " ", "i">>
    /\ LineBudget = 3
    /\ Len(wOps) = 3

WrittenFile == CHOOSE f \in fsFiles : f.path = result.outputPath

Extension(path) == path.file[Len(path.file)]

ExtensionEncoding(ext) == IF ext = "jpg" THEN "jpeg" ELSE ext

\* C17: the bytes generateCard writes are encoded in the requested output
\* format, so the reported format and the extension of the default file name
\* agree with the encoding of the file written.
C17_EncodingMatchesFormat ==
    Succeeded =>
        /\ WrittenFile.content.encoding = Effective("outputFormat")
        /\ ToUpperCase(WrittenFile.content.encoding) = result.cardInfo.format
        /\ outputPathArg = NoPath =>
               ExtensionEncoding(Extension(result.outputPath))
                   = WrittenFile.content.encoding

StatedDefaults ==
    [width |-> 1200, height |-> 630, cardStyle |-> "modern",
     outputFormat |-> "png", showBanner |-> TRUE, showStats |-> TRUE,
     showDescription |-> TRUE, backgroundColor |-> "#000000",
     textColor |-> "#ffffff", accentColor |-> "#1d9bf0"]

\* C19: every option the caller leaves unset takes its stated default,
\* whichever other options are set; a render with no option set that
\* succeeds reports format "PNG", 1200x630 and a positive byte size.
C19_UnsetOptionsTakeDefaults ==
    pc # "start" =>
        /\ \A k \in DOMAIN StatedDefaults \ DOMAIN options :
               opts[k] = StatedDefaults[k]
        /\ \A k \in DOMAIN options : opts[k] = options[k]
        /\ (Succeeded /\ options = Unset) =>
               /\ result.cardInfo.format = "PNG"
               /\ result.cardInfo.width = 1200
               /\ result.cardInfo.height = 630
               /\ result.cardInfo.fileSize > 0

C19_Witness ==
    /\ Succeeded
    /\ options = Unset
    /\ result.cardInfo = [width |-> 1200, height |-> 630,
                          fileSize |-> 1 + 1200 * 630, format |-> "PNG"]

\* the calls that paint or load, without the directory / encode / file calls
DrawOps(log) == SelectSeq(log, LAMBDA o : o.elem # "file")

IsPrefix(s, t) == Len(s) <= Len(t) /\ SubSeq(t, 1, Len(s)) = s

\* the call got past the last drawing step
DrewEverything(log) == \E i \in 1..Len(log) : log[i].elem = "file"

\* C13: two generateCard calls with the same assets and options issue the
\* same sequence of draw operations with the same arguments, whatever the
\* clock reads; only the default output path may differ.
C13_RenderingDeterministic ==
    run = 2 =>
        /\ IsPrefix(DrawOps(ops), DrawOps(prev.ops))
           \/ IsPrefix(DrawOps(prev.ops), DrawOps(ops))
        /\ (DrewEverything(ops) /\ DrewEverything(prev.ops)) =>
               DrawOps(ops) = DrawOps(prev.ops)
        /\ (outputPathArg # NoPath /\ outputPath # NoPath
                /\ prev.outputPath # NoPath) => outputPath = prev.outputPath

C13_Witness ==
    /\ run = 2
    /\ Succeeded
    /\ IsSuccessResult(prev.result)
    /\ now # prev.now
    /\ outputPath # prev.outputPath
    /\ Len(DrawOps(ops)) > 5
    /\ DrawOps(ops) = DrawOps(prev.ops)

Second(t) == t \div 1000

WroteFile(log) == \E i \in 1..Len(log) : log[i].op = "writeFile" /\ log[i].ok

\* C18: without an outputPath argument the file goes to
\* cwd/downloads/<handle>/<handle>_card_<timestamp>.<jpg for jpeg, else png>,
\* two renders of one handle whose timestamps lie in different seconds get
\* different paths and the later one leaves the file of the earlier one as
\* it was; with an outputPath argument the file is written exactly there.
C18_OutputPath ==
    /\ (outputPathArg = NoPath /\ outputPath # NoPath) =>
           /\ outputPath.dir = <<"cwd", "downloads", assets.profileData.username>>
           /\ outputPath.file[1] = assets.profileData.username
           /\ outputPath.file[2] = "_card_"
           /\ Extension(outputPath)
                  = IF Effective("outputFormat") = "jpeg" THEN "jpg" ELSE "png"
    /\ (run = 2 /\ outputPathArg = NoPath /\ outputPath # NoPath
            /\ prev.outputPath # NoPath /\ Second(now) # Second(prev.now)) =>
           /\ outputPath # prev.outputPath
           /\ prev.fsFiles \subseteq fsFiles
    /\ (outputPathArg # NoPath /\ WroteFile(ops)) =>
           /\ [path |-> outputPathArg, content |-> buffer] \in fsFiles
           /\ \A f \in fsFiles : f.path = outputPathArg

C18_Witness ==
    /\ run = 2
    /\ outputPathArg = NoPath
    /\ Succeeded
    /\ IsSuccessResult(prev.result)
    /\ prev.now = 999
    /\ now = 1000
    /\ Cardinality(fsFiles) = 2

RecordOf(username) == disk.csv[username]

LoadReturned == loaded # NotLoaded

\* C14: for a username without a record file loadAssetsFromDirectory throws
\* "Failed to load profile data for <username>: ...", hands out no assets,
\* and generateCard is never started: no draw call, no result object.  A
\* failure while rendering is a returned failure result instead.
C14_MissingRecordThrows ==
    /\ (LoadReturned /\ ~RecordOf(cliUsername).exists) =>
           /\ loaded.status = "thrown"
           /\ DOMAIN loaded = {"status", "message"}
           /\ SubSeq(loaded.message, 1, 3)
                  = <<"Failed to load profile data for ", cliUsername, ": ">>
           /\ pc = "idle"
           /\ ops = <<>>
           /\ result = NoResult
           /\ cli = "exit1"
    /\ Failed => (loaded.status = "assets" /\ IsFailureResult(result))

C14_Witness ==
    /\ LoadReturned
    /\ cliUsername = "ada"
    /\ ~RecordOf("ada").exists
    /\ [user |-> "ada", name |-> "profile_image.jpg"] \in disk.images
    /\ loaded.status = "thrown"
    /\ cli = "exit1"

\* the record has no second line, or a second line of fewer than 16 fields
Malformed(content) ==
    LET lines == SplitOn(content, "\n")
    IN  Len(lines) < 2 \/ Len(SplitOn(lines[2], ",")) < 16

\* C15: a record file whose first two lines do not give the 16 columns makes
\* loadAssetsFromDirectory fail instead of returning a profile of empty or
\* defaulted fields.
C15_MalformedRecordRejected ==
    (LoadReturned /\ RecordOf(cliUsername).exists
         /\ Malformed(RecordOf(cliUsername).content)) =>
        loaded.status = "thrown"

\* readFile succeeds and the content has a second line
RecordReadable(file) == file.exists /\ Includes(file.content, "\n")

\* C16: once the record is read, profileImagePath is set iff
\* <dir>/<username>/profile_image.jpg exists and bannerImagePath iff
\* <dir>/<username>/banner_image.jpg exists, each whatever the other; the
\* call fails only for the record, never for a missing image.
C16_AssetFilesIndependent ==
    LoadReturned =>
        /\ loaded.status = "assets" <=> RecordReadable(RecordOf(cliUsername))
        /\ loaded.status = "assets" =>
               /\ loaded.profileImagePath
                      = IF [user |-> cliUsername, name |-> "profile_image.jpg"]
                                \in disk.images
                        THEN "downloads/" \o cliUsername \o "/profile_image.jpg"
                        ELSE ""
               /\ loaded.bannerImagePath
                      = IF [user |-> cliUsername, name |-> "banner_image.jpg"]
                                \in disk.images
                        THEN "downloads/" \o cliUsername \o "/banner_image.jpg"
                        ELSE ""

C16_Witness ==
    /\ LoadReturned
    /\ loaded.status = "assets"
    /\ loaded.profileImagePath = ""
    /\ loaded.bannerImagePath = "downloads/ada/banner_image.jpg"

Exported == sProfile # NoProfile /\ sProfile.exported

\* C20: the record file exportProfileData writes is one header line and one
\* data line, each of the 16 columns id, name, username, description,
\* verified, followers_count, following_count, tweet_count, listed_count,
\* like_count, media_count, subscribes_to_you, subscription_type,
\* profile_image_url, profile_banner_url, created_at, at the positions
\* loadAssetsFromDirectory reads.
C20_OneHeaderOneDataLine ==
    Exported =>
        LET lines == SplitOn(RecordOf("ada").content, "\n")
        IN  /\ Len(lines) = 3
            /\ lines[3] = <<>>
            /\ SplitOn(lines[1], ",")
                   = << <<"id">>, <<"name">>, <<"username">>, <<"description">>,
                        <<"verified">>, <<"followers_count">>,
                        <<"following_count">>, <<"tweet_count">>,
                        <<"listed_count">>, <<"like_count">>, <<"media_count">>,
                        <<"subscribes_to_you">>, <<"subscription_type">>,
                        <<"profile_image_url">>, <<"profile_banner_url">>,
                        <<"created_at">> >>
            /\ Len(SplitOn(lines[2], ",")) = 16

IdentityDrawn == pc \in {"stats", "description"} \/ DrawingFinished

\* C24: the identity block is the name at the block's start offset, the
\* handle 50px below it and, if and only if the profile is verified, the
\* verified label 40px below the handle; nothing else is drawn in the block.
C24_IdentityBlock ==
    IdentityDrawn =>
        LET lines == OpsOf("identity")
            startY == IF Effective("showBanner")
                      THEN (2 * Effective("height")) \div 5 + 20
                      ELSE 200
        IN  /\ Len(lines) = IF assets.profileData.verified THEN 3 ELSE 2
            /\ lines[1].text = <<assets.profileData.name>>
            /\ lines[1].y = startY
            /\ lines[2].text = <<"@", assets.profileData.username>>
            /\ lines[2].y = lines[1].y + 50
            /\ assets.profileData.verified =>
                   /\ lines[3].text = <<"Verified">>
                   /\ lines[3].y = lines[2].y + 40
            /\ \A i \in 1..Len(lines) : lines[i].op = "fillText" /\ lines[i].x = 60

C24_Witness ==
    /\ IdentityDrawn
    /\ ~assets.profileData.verified
    /\ Len(OpsOf("identity")) = 2
    /\ OpsOf("identity")[2].y = 200 + 50

EffectiveOf(given, key) ==
    IF key \in DOMAIN given THEN given[key] ELSE defaultOptions[key]

\* the two calls agree on every option but, possibly, the given one
SameExcept(key) ==
    \A k \in DOMAIN defaultOptions \ {key} :
        EffectiveOf(options, k) = EffectiveOf(prev.options, k)

DrawOpsWithout(log, elem) == SelectSeq(DrawOps(log), LAMBDA o : o.elem # elem)

\* C25: two renders of the same assets whose options differ only in
\* cardStyle issue the same draw operations with the same coordinates; if
\* they differ only in showStats every operation outside the stats row is
\* the same, and likewise for showDescription and the description.
C25_OptionsAffectOwnElement ==
    (run = 2 /\ DrewEverything(ops) /\ DrewEverything(prev.ops)) =>
        /\ SameExcept("cardStyle") => DrawOps(ops) = DrawOps(prev.ops)
        /\ SameExcept("showStats") =>
               DrawOpsWithout(ops, "stats") = DrawOpsWithout(prev.ops, "stats")
        /\ SameExcept("showDescription") =>
               DrawOpsWithout(ops, "description")
                   = DrawOpsWithout(prev.ops, "description")

C25_Witness ==
    /\ run = 2
    /\ DrewEverything(ops)
    /\ DrewEverything(prev.ops)
    /\ EffectiveOf(prev.options, "cardStyle") = "modern"
    /\ EffectiveOf(options, "cardStyle") = "minimal"
    /\ SameExcept("cardStyle")
    /\ Len(DrawOps(ops)) > 5
    /\ DrawOps(ops) = DrawOps(prev.ops)

RoundTripFields ==
    {"id", "name", "username", "description", "verified", "followersCount",
     "followingCount", "tweetCount"}

\* C27: a profile exported and then loaded for the same username comes back
\* with the same id, name, username, description, verified flag and
\* followers / following / tweet counts, whatever characters the text
\* fields hold.
C27_RoundTrip ==
    (Exported /\ LoadReturned /\ cliUsername = Handle(sProfile.profile)) =>
        /\ loaded.status = "assets"
        /\ \A f \in RoundTripFields :
               loaded.profileData[f] = sProfile.profile[f]

Attempts(which) ==
    SelectSeq(download.attempts, LAMBDA a : a.image = which)

FailedAttempts == SelectSeq(download.attempts, LAMBDA a : ~a.ok)

\* C21: downloadProfileAssets attempts the avatar and the banner each
\* exactly when its URL is present, whatever became of the other; every
\* failed download is one entry of result.errors, in order, with its path
\* left null; and the call returns its result once the directory is there.
C21_DownloadFailuresIsolated ==
    /\ download.status = "returned" =>
           /\ Len(Attempts("profileImage"))
                  = IF sProfile.profile.profileImageUrl # <<>> THEN 1 ELSE 0
           /\ Len(Attempts("bannerImage"))
                  = IF sProfile.profile.profileBannerUrl # <<>> THEN 1 ELSE 0
           /\ Len(download.result.errors) = Len(FailedAttempts)
           /\ \A i \in 1..Len(FailedAttempts) :
                  /\ download.result[FailedAttempts[i].image] = ""
                  /\ download.result.errors[i][2]
                         = IF FailedAttempts[i].image = "profileImage"
                           THEN "profile image" ELSE "banner image"
           /\ \A a \in {"profileImage", "bannerImage"} :
                  (\E i \in 1..Len(download.attempts) :
                       download.attempts[i].image = a /\ download.attempts[i].ok)
                      <=> download.result[a] # ""
    /\ download.status = "thrown" => download.attempts = <<>>

C21_Witness ==
    /\ download.status = "returned"
    /\ download.attempts = <<[image |-> "profileImage", ok |-> FALSE],
                             [image |-> "bannerImage", ok |-> TRUE]>>
    /\ download.result.profileImage = ""
    /\ download.result.bannerImage = "downloads/ada/banner_image.jpg"
    /\ Len(download.result.errors) = 1

\* C28: an avatar or banner that downloadProfileAssets reports as
\* downloaded is found by loadAssetsFromDirectory for that user afterwards,
\* whatever the content type or the extension of the URL.
C28_DownloadedAssetsFound ==
    (download.status = "returned" /\ LoadReturned /\ loaded.status = "assets") =>
        /\ download.result.profileImage # "" => loaded.profileImagePath # ""
        /\ download.result.bannerImage # "" => loaded.bannerImagePath # ""

ObjectKeysOfRecord ==
    << <<"id">>, <<"name">>, <<"username">>, <<"description">>, <<"verified">>,
       <<"followers_count">>, <<"following_count">>, <<"tweet_count">>,
       <<"listed_count">>, <<"like_count">>, <<"media_count">>,
       <<"subscribes_to_you">>, <<"subscription_type">>, <<"profile_image_url">>,
       <<"profile_banner_url">>, <<"created_at">> >>

\* the entries of profilesDir that are directories holding a record file
RecordEntries ==
    SelectSeq(master.entries,
              LAMBDA en : en.isDirectory /\ FindDataCsv(en.files) # 0)

RecordLines(en) == SplitOn(en.files[FindDataCsv(en.files)].content, "\n")

\* C22: all_profiles.csv is one header row of the profile field names and
\* one data row for every user directory that holds a *_data.csv file, the
\* row carrying the field values of that record.
C22_MasterCsvRows ==
    master.status = "written" =>
        LET lines == SplitOn(master.content, "\n")
        IN  /\ Len(lines) = Len(RecordEntries) + 2
            /\ parseCSVLine(lines[1]) = ObjectKeysOfRecord
            /\ \A j \in 1..Len(RecordEntries) :
                   parseCSVLine(lines[j + 1])
                       = parseCSVLine(RecordLines(RecordEntries[j])[2])

\* the username rules of the README
SatisfiesUsernameRules(u) ==
    /\ Len(u) \in 1..15
    /\ \A i \in 1..Len(u) :
          u[i] \in LowerCaseLetters \cup UpperCaseLetters \cup {"_"}
          \/ IsDigitToken(u[i])
    /\ ~IsDigitToken(u[1])

SupportedForms == {"twitter", "x", "status", "with_replies", "at", "bare"}

\* C23: for a valid username u, extractUsername returns exactly u for
\* https://twitter.com/u, https://x.com/u, https://twitter.com/u/status/<id>,
\* https://twitter.com/u/with_replies, @u and u; it throws for an input that
\* holds no valid username; and whatever it returns satisfies the rules.
C23_ExtractUsername ==
    parse.status = "done" =>
        /\ (parse.form \in SupportedForms /\ SatisfiesUsernameRules(parse.u)) =>
               (~parse.outcome.thrown /\ parse.outcome.username = parse.u)
        /\ (\/ ~SatisfiesUsernameRules(parse.u)
            \/ parse.form \in {"followers", "query", "other_host"}) =>
               parse.outcome.thrown
        /\ ~parse.outcome.thrown => SatisfiesUsernameRules(parse.outcome.username)

C23_Witness ==
    /\ parse.status = "done"
    /\ parse.form = "status"
    /\ Len(parse.u) = 15
    /\ ~parse.outcome.thrown
    /\ parse.outcome.username = parse.u

\* the user names of the log, in the order processed
RECURSIVE ProcessedNames(_)
ProcessedNames(log) ==
    IF log = <<>> THEN <<>> ELSE <<Head(log).username>> \o ProcessedNames(Tail(log))

\* C26: generate-cards processes the listed users one at a time, in listing
\* order, each exactly once; a load error or a failed render is counted as a
\* failure and the next user is still processed; when the loop has ended
\* successCount + failCount is the number of users.
C26_GenerateCardsLoop ==
    /\ ProcessedNames(cards.processed) = SubSeq(cards.users, 1, Len(cards.processed))
    /\ cards.successCount + cards.failCount = Len(cards.processed)
    /\ cards.successCount =
          Cardinality({k \in 1..Len(cards.processed) :
                          cards.processed[k].outcome = "success"})
    /\ pc \notin {"idle", "done"} =>
          /\ cards.status = "generating"
          /\ Len(cards.processed) = cards.i
          /\ assets.profileData.username = <<cards.users[cards.i + 1]>>
    /\ cards.status = "completed" =>
          /\ Len(cards.processed) = Len(cards.users)
          /\ cards.successCount + cards.failCount = Len(cards.users)

C26_Witness ==
    /\ cards.status = "completed"
    /\ Len(cards.users) = 2
    /\ cards.processed[1].outcome \in {"thrown", "failed"}
    /\ cards.processed[2].outcome = "success"
    /\ cards.failCount = 1
    /\ cards.successCount = 1

\* the entries cleanupUserDirectory has removed
RemovedEntries ==
    {en \in {cleanup.before[k] : k \in 1..Len(cleanup.before)} : en \notin cleanup.dir}

RECURSIVE TotalSize(_)
TotalSize(entries) ==
    IF entries = {} THEN 0
    ELSE LET en == CHOOSE x \in entries : TRUE
         IN  en.size + TotalSize(entries \ {en})

\* C29: after cleanupUserDirectory returns, no file whose name contains a
\* keep pattern has been removed, filesRemoved is the number of files removed
\* and spaceFreed is the sum of their sizes, also when removals fail.
C29_CleanupCounts ==
    cleanup.status = "returned" =>
        /\ \A en \in RemovedEntries :
              /\ en.isFile
              /\ \A k \in 1..Len(keepPatterns) : ~NameIncludes(en.name, keepPatterns[k])
        /\ cleanup.result.filesRemoved = Cardinality(RemovedEntries)
        /\ cleanup.result.spaceFreed = TotalSize(RemovedEntries)

\* C30: in the batch command a failure while processing one URL does not
\* prevent the remaining URLs from being processed; every URL of the file is
\* attempted exactly once, in file order, with the delay only between
\* consecutive URLs.
C30_BatchAttemptsAll ==
    /\ batch.status # "idle" =>
          batch.attempts = SubSeq(batch.urls, 1, Len(batch.attempts))
    /\ batch.status \in {"completed", "exit1"} =>
          /\ Len(batch.attempts) = Len(batch.urls)
          /\ batch.delays = [k \in 1..(Len(batch.urls) - 1) |-> k - 1]

====
